---- MODULE Spec2Model ----
(***************************************************************************)
(* Model of the shogi engine orchestrator: EngineManager (role manager),   *)
(* EngineProcess (one handle per spawned child) and the USI child process  *)
(* as environment.  Threads call the EngineManager API; every blocking     *)
(* point of the code (lock acquisition, pipe read) is a separate step.     *)
(***************************************************************************)
EXTENDS Integers, Sequences, FiniteSets, TLC

\* ------------------------------------------------------------------ bounds
MaxHandles == 2      \* EngineProcess objects constructed in one behaviour
MaxOut == 2          \* lines a child can have written that nobody has read yet
MaxTicks == 2        \* handshake loop iterations before the deadline has passed
MaxPending == 2      \* commands a child has received and not yet answered

\* ------------------------------------------------------------- the universe
AllThreads == {"t1", "t2"}
Roles == {"black", "white", "analysis"}
EngineIds == {"e1", "e2"}
Handles == 1..MaxHandles
None == "None"

\* available_engines: the descriptor catalog (EngineConfig per engine id).
available_engines ==
  [e \in EngineIds |->
     IF e = "e1"
     THEN [minLevel |-> 1, maxLevel |-> 10, supported |-> TRUE,
           methods |-> {"skillLevel", "uciElo"},
           defaultOptions |-> << <<"Hash", "128">> >>]
     ELSE [minLevel |-> 2, maxLevel |-> 9, supported |-> FALSE,
           methods |-> {},
           defaultOptions |-> <<>>]]

\* The positions and move lists callers pass: a position is its list of
\* whitespace-separated fields.
Startpos == <<"startpos">>
Positions == {Startpos, <<"sfenA", "w">>}
MoveLists == {<<>>, <<"7g7f">>}

VARIABLES
  \* EngineManager
  running_engines,   \* dict id -> EngineProcess, as the sequence of its items
  active_engines,    \* role -> engine id or None
  strength_levels,   \* role -> level
  custom_options,    \* role -> dict, as the sequence of its items
  analysis_enabled,
  current_position,
  move_history,
  \* EngineProcess objects, by handle number
  created,           \* number of EngineProcess objects constructed
  config,            \* handle -> engine id of its descriptor
  process,           \* handle -> "None" | "Popen"      (self.process)
  state,             \* handle -> EngineState
  lock,              \* handle -> thread holding self.lock, or "none"
  current_options,   \* handle -> dict name -> value, as the sequence of its items
  \* the child process of each handle
  alive,             \* handle -> the child is running
  stdin,             \* handle -> lines written to the child since the latest API call began
  child_position,    \* handle -> the last 'position' line the child received
  stdout,            \* handle -> lines the child has written, not yet read
  pending,           \* handle -> reply-bearing commands not yet answered
  \* threads calling the API
  pc, cont, hd, old, op, ticks, todo, result,
  \* a helper function applied on its own: its arguments and what it returned
  arg, ret

mgr == <<running_engines, active_engines, strength_levels, custom_options,
         analysis_enabled, current_position, move_history>>
obj == <<created, config, process, state, lock, current_options>>
chan == <<alive, stdout, pending>>
child == <<chan, stdin, child_position>>
thr == <<pc, cont, hd, old, op, ticks, todo, result>>
fn == <<arg, ret>>
vars == <<mgr, obj, child, thr, fn>>

\* ------------------------------------------------------------ dictionaries
\* A Python dict kept as the sequence of its <<key, value>> items, in
\* insertion order.
Has(d, k) == \E i \in 1..Len(d) : d[i][1] = k
Get(d, k) == d[CHOOSE i \in 1..Len(d) : d[i][1] = k][2]
Put(d, k, v) ==
  IF Has(d, k)
  THEN [i \in 1..Len(d) |-> IF d[i][1] = k THEN <<k, v>> ELSE d[i]]
  ELSE Append(d, <<k, v>>)
IsNot(k, p) == p[1] # k
Del(d, k) == SelectSeq(d, LAMBDA p : IsNot(k, p))
Keys(d) == {d[i][1] : i \in 1..Len(d)}

NoOp == [name |-> "none", side |-> None, engine_id |-> None, level |-> 10,
         custom_given |-> FALSE, copts |-> <<>>, enabled |-> None,
         position |-> Startpos, moves |-> <<>>]

InitState ==
  /\ running_engines = <<>>
  /\ active_engines = [r \in Roles |-> None]
  /\ strength_levels = [r \in Roles |-> 10]
  /\ custom_options = [r \in Roles |-> <<>>]
  /\ analysis_enabled = FALSE
  /\ current_position = Startpos
  /\ move_history = <<>>
  /\ created = 0
  /\ config = [h \in Handles |-> None]
  /\ process = [h \in Handles |-> None]
  /\ state = [h \in Handles |-> "IDLE"]
  /\ lock = [h \in Handles |-> "none"]
  /\ current_options = [h \in Handles |-> <<>>]
  /\ alive = [h \in Handles |-> FALSE]
  /\ stdin = [h \in Handles |-> <<>>]
  /\ child_position = [h \in Handles |-> <<>>]
  /\ stdout = [h \in Handles |-> <<>>]
  /\ pending = [h \in Handles |-> <<>>]
  /\ pc = [t \in AllThreads |-> "idle"]
  /\ cont = [t \in AllThreads |-> "none"]
  /\ hd = [t \in AllThreads |-> 0]
  /\ old = [t \in AllThreads |-> None]
  /\ op = [t \in AllThreads |-> NoOp]
  /\ ticks = [t \in AllThreads |-> 0]
  /\ todo = [t \in AllThreads |-> <<>>]
  /\ result = [t \in AllThreads |-> <<"none", "">>]

NotCalled == [called |-> FALSE, out |-> <<>>]
Init == InitState /\ arg = <<>> /\ ret = NotCalled

\* --------------------------------------------------------------- USI codec
\* A line is the sequence of its whitespace-separated tokens.
format_setoption(name, value) == <<"setoption", "name", name, "value", value>>

format_position(sfen, moves) ==
  (IF sfen = Startpos \/ (Len(sfen) > 0 /\ sfen[1] = "startpos")
   THEN <<"position", "startpos">>
   ELSE <<"position", "sfen">> \o sfen)
  \o (IF moves # <<>> THEN <<"moves">> \o moves ELSE <<>>)

GoField(p, k) == IF p[k] # None THEN <<k, p[k]>> ELSE <<>>
format_go(p) ==
  <<"go">> \o
  (IF p.infinite THEN <<"infinite">>
   ELSE GoField(p, "btime") \o GoField(p, "wtime") \o GoField(p, "binc")
        \o GoField(p, "winc") \o GoField(p, "byoyomi") \o GoField(p, "movetime")
        \o GoField(p, "depth") \o GoField(p, "nodes"))

NoGoParams == [btime |-> None, wtime |-> None, binc |-> None, winc |-> None,
               byoyomi |-> None, movetime |-> None, depth |-> None,
               nodes |-> None, infinite |-> FALSE]

\* Tokens int() accepts.
Numerals == {"5", "12", "45"}
IntKeys == {"depth", "seldepth", "nodes", "nps", "time", "hashfull"}

\* parse_info from token i on: [raised |-> int() raised ValueError, info |-> dict]
RECURSIVE ParseInfoFrom(_, _, _)
ParseInfoFrom(parts, i, info) ==
  IF i > Len(parts) THEN [raised |-> FALSE, info |-> info]
  ELSE LET key == parts[i] IN
    IF key \in IntKeys /\ i + 1 <= Len(parts)
    THEN IF parts[i + 1] \in Numerals
         THEN ParseInfoFrom(parts, i + 2, Put(info, key, <<parts[i + 1]>>))
         ELSE [raised |-> TRUE, info |-> info]
    ELSE IF key = "score" /\ i + 2 <= Len(parts)
    THEN IF parts[i + 1] \in {"cp", "mate"}
         THEN IF parts[i + 2] \in Numerals
              THEN ParseInfoFrom(parts, i + 3,
                     Put(info, IF parts[i + 1] = "cp" THEN "score_cp" ELSE "mate",
                         <<parts[i + 2]>>))
              ELSE [raised |-> TRUE, info |-> info]
         ELSE ParseInfoFrom(parts, i + 3, info)
    ELSE IF key = "pv"
    THEN [raised |-> FALSE,
          info |-> Put(info, "pv", SubSeq(parts, i + 1, Len(parts)))]
    ELSE ParseInfoFrom(parts, i + 1, info)

parse_info(line) ==
  IF Len(line) = 0 \/ line[1] # "info" THEN [raised |-> FALSE, info |-> <<>>]
  ELSE ParseInfoFrom(line, 2, <<>>)

\* A USIOption: name and default are strings, kept as the sequences of their
\* words (the empty sequence is the empty string); min and max are <<n>> or
\* <<>> for None; var is the list of choices.
OptionInts == {-5, 0, 20, 100}
IsNumeral(tok) == \E n \in OptionInts : ToString(n) = tok
IntOf(tok) == CHOOSE n \in OptionInts : ToString(n) = tok
EndsWith(str, suffix) ==
  Len(str) >= Len(suffix)
    /\ SubSeq(str, Len(str) - Len(suffix) + 1, Len(str)) = suffix

\* The line an engine writes for an option (USI: option name <name> type
\* <type> [default <x>] [min <a> max <b>] [var <v>]...)
RECURSIVE VarFields(_)
VarFields(var) ==
  IF var = <<>> THEN <<>> ELSE <<"var">> \o Head(var) \o VarFields(Tail(var))
format_option(o) ==
  <<"option", "name">> \o o.name \o <<"type", o.type>>
    \o (IF o.default # <<>> THEN <<"default">> \o o.default ELSE <<>>)
    \o (IF o.min # <<>> THEN <<"min", ToString(o.min[1])>> ELSE <<>>)
    \o (IF o.max # <<>> THEN <<"max", ToString(o.max[1])>> ELSE <<>>)
    \o VarFields(o.var)

\* re.search(key + r'\s+(\S+)', rest): the word after the first word that
\* ends with key and has a successor (usi_protocol.py 76)
AfterKey(rest, key) ==
  LET hits == {i \in 1..(Len(rest) - 1) : EndsWith(rest[i], key)} IN
  IF hits = {} THEN <<>>
  ELSE <<rest[(CHOOSE i \in hits : \A j \in hits : i <= j) + 1]>>

\* re.search(key + r'\s+(-?\d+)', rest) and int() (lines 82-87)
IntAfterKey(rest, key) ==
  LET hits == {i \in 1..(Len(rest) - 1) :
                 EndsWith(rest[i], key) /\ IsNumeral(rest[i + 1])} IN
  IF hits = {} THEN <<>>
  ELSE <<IntOf(rest[(CHOOSE i \in hits : \A j \in hits : i <= j) + 1])>>

\* re.findall(r'var\s+(\S+)', rest) from word i on (line 91)
RECURSIVE VarsFrom(_, _)
VarsFrom(rest, i) ==
  IF i >= Len(rest) THEN <<>>
  ELSE IF EndsWith(rest[i], "var")
  THEN << <<rest[i + 1]>> >> \o VarsFrom(rest, i + 2)
  ELSE VarsFrom(rest, i + 1)

\* parse_option (lines 30-105): [ok |-> FALSE] for None
NoOption == [ok |-> FALSE, option |-> <<>>]
parse_option(line) ==
  IF ~(Len(line) >= 3 /\ line[1] = "option" /\ line[2] = "name") THEN NoOption
  ELSE LET content == SubSeq(line, 3, Len(line))
           types == {i \in 2..(Len(content) - 1) : content[i] = "type"}
       IN IF types = {} THEN NoOption
          ELSE LET type_idx == CHOOSE i \in types : \A j \in types : i <= j
                   option_type == content[type_idx + 1]
                   rest == SubSeq(content, type_idx + 2, Len(content))
               IN [ok |-> TRUE,
                   option |->
                     [name |-> SubSeq(content, 1, type_idx - 1),
                      type |-> option_type,
                      default |-> AfterKey(rest, "default"),
                      min |-> IF option_type = "spin" THEN IntAfterKey(rest, "min")
                              ELSE <<>>,
                      max |-> IF option_type = "spin" THEN IntAfterKey(rest, "max")
                              ELSE <<>>,
                      var |-> IF option_type = "combo" THEN VarsFrom(rest, 1)
                              ELSE <<>>]]

\* ----------------------------------------------------------- strength maps
elo_map(level) ==
  CASE level = 1 -> 600 [] level = 2 -> 850 [] level = 3 -> 1075
    [] level = 4 -> 1225 [] level = 5 -> 1450 [] level = 6 -> 1700
    [] level = 7 -> 1950 [] level = 8 -> 2200 [] level = 9 -> 2550
    [] level = 10 -> 3000 [] OTHER -> 3000

\* int(x / 9): truncation toward zero
IntDiv9(x) == IF x >= 0 THEN x \div 9 ELSE -((-x) \div 9)

\* _apply_elo_strength / _apply_skill_level: the options they set, in order
EloOptions(level) ==
  << <<"UCI_LimitStrength", "true">>, <<"UCI_Elo", ToString(elo_map(level))>> >>
SkillOptions(level) ==
  << <<"Skill Level", ToString(IntDiv9((level - 1) * 20))>> >>

\* _apply_strength on a handle whose descriptor has strengthControl c: the
\* options it sets
SkillFirst(c, level) ==
  IF ~c.supported THEN <<>>
  ELSE IF "skillLevel" \in c.methods THEN SkillOptions(level)
  ELSE IF "uciElo" \in c.methods THEN EloOptions(level)
  ELSE <<>>
StrengthOptionsOf(c, level) ==
  IF ~c.supported THEN <<>>
  ELSE IF "skillLevel" \in c.methods /\ "uciElo" \in c.methods THEN EloOptions(level)
  ELSE IF "skillLevel" \in c.methods THEN SkillOptions(level)
  ELSE IF "uciElo" \in c.methods THEN EloOptions(level)
  ELSE <<>>
StrengthOptions(engine_id, level) ==
  StrengthOptionsOf(available_engines[engine_id], level)

\* set_engine's clamping of strength_level to the descriptor's range
Max(a, b) == IF a >= b THEN a ELSE b
Min(a, b) == IF a <= b THEN a ELSE b
NoClamp(engine_id, level) == level
Clamp(engine_id, level) ==
  LET c == available_engines[engine_id] IN
  IF level < c.minLevel \/ level > c.maxLevel
  THEN Max(c.minLevel, Min(level, c.maxLevel))
  ELSE level

\* ------------------------------------------------------ EngineProcess I/O
\* The stdin logs when an API call begins.
Fresh == [h \in Handles |-> <<>>]

\* The position a child holds after receiving `lines`
RECURSIVE LastPosition(_, _)
LastPosition(cur, lines) ==
  IF lines = <<>> THEN cur
  ELSE LastPosition(IF Head(lines)[1] = "position" THEN Head(lines) ELSE cur,
                    Tail(lines))

\* `lines` are written to the child of handle h; log is stdin, or Fresh in
\* the first step of an API call.
Write(log, h, lines) ==
  /\ stdin' = [log EXCEPT ![h] = @ \o lines]
  /\ child_position' = [child_position EXCEPT ![h] = LastPosition(@, lines)]
NoWrite(log) == stdin' = log /\ UNCHANGED child_position

\* _send_command succeeds: the handle has a process and the child runs
Writable(h) == process[h] # None /\ alive[h]

\* The handle's state after a failed _send_command: unchanged when the check
\* of process / poll() raises, ERROR when the write itself raises.
FailStates(h) == IF process[h] = None THEN {state[h]} ELSE {state[h], "ERROR"}

\* set_option on each item of opts: one setoption line each
SetoptionLines(opts) == [i \in 1..Len(opts) |-> format_setoption(opts[i][1], opts[i][2])]
\* A dict update that keeps the value a name already has
RECURSIVE PutNew(_, _)
PutNew(d, opts) ==
  IF opts = <<>> THEN d
  ELSE PutNew(IF Has(d, opts[1][1]) THEN d ELSE Append(d, opts[1]), Tail(opts))
RECURSIVE PutAll(_, _)
PutAll(d, opts) ==
  IF opts = <<>> THEN d ELSE PutAll(Put(d, opts[1][1], opts[1][2]), Tail(opts))

\* a check that looks at the two players only
CanStopPlayersOnly(a, engine_id) ==
  engine_id # a["black"] /\ engine_id # a["white"]
\* _can_stop_engine under the role assignment a
_can_stop_engine(a, engine_id) ==
  /\ engine_id # a["black"]
  /\ engine_id # a["white"]
  /\ engine_id # a["analysis"]

\* -------------------------------------------------------------- the child
\* The child answers the oldest reply-bearing command it has received.
ReplyTo(p) ==
  CASE p[1] = "usi" -> [line |-> <<"usiok">>, re |-> ""]
    [] p[1] = "isready" -> [line |-> <<"readyok">>, re |-> ""]
    [] OTHER -> [line |-> <<"bestmove", "7g7f">>, re |-> p[2]]

ChildReply(h) ==
  /\ alive[h] /\ pending[h] # <<>> /\ Len(stdout[h]) < MaxOut
  /\ stdout' = [stdout EXCEPT ![h] = Append(@, ReplyTo(Head(pending[h])))]
  /\ pending' = [pending EXCEPT ![h] = Tail(@)]
  /\ UNCHANGED <<mgr, obj, thr, fn, alive, stdin, child_position>>

\* Lines a child may write before its reply.
Chatter(p) ==
  CASE p[1] = "usi" -> {<<"id", "name", "X">>}
    [] p[1] = "isready" -> {<<"info", "string", "loading">>}
    [] OTHER -> {<<"info", "depth", "12", "score", "cp", "45">>,
                 <<"info", "string", "depth", "n/a">>}

ChildChatter(h) ==
  /\ alive[h] /\ pending[h] # <<>> /\ Len(stdout[h]) < MaxOut
  /\ \E line \in Chatter(Head(pending[h])) :
       stdout' = [stdout EXCEPT ![h] = Append(@, [line |-> line, re |-> ""])]
  /\ UNCHANGED <<mgr, obj, thr, fn, alive, stdin, child_position, pending>>

\* Lines of a child that resemble the replies without being them.
Noise(p) ==
  CASE p[1] = "usi" -> {<<"usiokay">>}
    [] p[1] = "isready" -> {<<"readyokay">>}
    [] OTHER -> {<<"bestmoves">>}

ChildNoise(h) ==
  /\ alive[h] /\ pending[h] # <<>> /\ Len(stdout[h]) < MaxOut
  /\ \E line \in Noise(Head(pending[h])) :
       stdout' = [stdout EXCEPT ![h] = Append(@, [line |-> line, re |-> ""])]
  /\ UNCHANGED <<mgr, obj, thr, fn, alive, stdin, child_position, pending>>

\* The child exits on its own.
ChildExit(h) ==
  /\ alive[h]
  /\ alive' = [alive EXCEPT ![h] = FALSE]
  /\ pending' = [pending EXCEPT ![h] = <<>>]
  /\ UNCHANGED <<mgr, obj, thr, fn, stdin, child_position, stdout>>

\* ---------------------------------------------------------------- threads
Running == <<"none", "">>
Thread(t, p, c, h, o, k, td, r, call) ==
  /\ op' = [op EXCEPT ![t] = call]
  /\ pc' = [pc EXCEPT ![t] = p]
  /\ cont' = [cont EXCEPT ![t] = c]
  /\ hd' = [hd EXCEPT ![t] = h]
  /\ old' = [old EXCEPT ![t] = o]
  /\ ticks' = [ticks EXCEPT ![t] = k]
  /\ todo' = [todo EXCEPT ![t] = td]
  /\ result' = [result EXCEPT ![t] = r]
  /\ UNCHANGED fn
\* The call of thread t ends with outcome r.
Return(t, r) == Thread(t, "idle", "none", 0, None, 0, <<>>, <<r, "">>, NoOp)

\* ------------------------------------------------------------- set_engine
SetEngineOp(side, engine_id, level, custom_given, copts, enabled) ==
  [name |-> "set_engine", side |-> side, engine_id |-> engine_id,
   level |-> level, custom_given |-> custom_given, copts |-> copts,
   enabled |-> enabled, position |-> Startpos, moves |-> <<>>]

\* engine_manager.py lines 152-158: store custom options and the analysis flag
StoreOptions(side, custom_given, copts, enabled) ==
  /\ custom_options' =
       IF custom_given THEN [custom_options EXCEPT ![side] = copts]
       ELSE custom_options
  /\ analysis_enabled' =
       IF side = "analysis" /\ enabled # None THEN enabled = "True"
       ELSE analysis_enabled

\* _stop_engine(engine_id) as the tail of an operation: request the handle's
\* lock if the engine is in the table, else go on with `after`.
StopEngineOr(t, re, engine_id, c, td, call, after) ==
  IF Has(re, engine_id)
  THEN Thread(t, "stop_lock", c, Get(re, engine_id), engine_id, 0, td, Running, call)
  ELSE after

\* set_engine with a side that is no role: ValueError (line 149)
SetEngineInvalidSide(t, side, engine_id, level, custom_given, copts, enabled) ==
  /\ pc[t] = "idle" /\ side \notin Roles
  /\ Return(t, "ValueError")
  /\ NoWrite(Fresh)
  /\ UNCHANGED <<mgr, obj, chan>>

\* set_engine(side, None, ...): clear the role (lines 161-170)
SetEngineDisable(t, side, level, custom_given, copts, enabled) ==
  /\ pc[t] = "idle" /\ side \in Roles
  /\ StoreOptions(side, custom_given, copts, enabled)
  /\ LET old_engine_id == active_engines[side]
         a == [active_engines EXCEPT ![side] = None]
     IN /\ active_engines' = a
        /\ IF old_engine_id # None /\ _can_stop_engine(a, old_engine_id)
           THEN StopEngineOr(t, running_engines, old_engine_id, "se_true", <<>>,
                   SetEngineOp(side, None, level, custom_given, copts, enabled),
                   Return(t, "True"))
           ELSE Return(t, "True")
  /\ NoWrite(Fresh)
  /\ UNCHANGED <<running_engines, strength_levels, current_position,
                 move_history, obj, chan>>

\* set_engine that points the role at the engine id before looking it up
SetEngineUnknownLate(t, side, engine_id, level, custom_given, copts, enabled) ==
  /\ pc[t] = "idle" /\ side \in Roles
  /\ engine_id # None /\ engine_id \notin DOMAIN available_engines
  /\ StoreOptions(side, custom_given, copts, enabled)
  /\ active_engines' = [active_engines EXCEPT ![side] = engine_id]
  /\ Return(t, "ValueError")
  /\ NoWrite(Fresh)
  /\ UNCHANGED <<running_engines, strength_levels,
                 current_position, move_history, obj, chan>>

\* set_engine with an engine id that is not in the catalog: ValueError (line 173)
SetEngineUnknown(t, side, engine_id, level, custom_given, copts, enabled) ==
  /\ pc[t] = "idle" /\ side \in Roles
  /\ engine_id # None /\ engine_id \notin DOMAIN available_engines
  /\ StoreOptions(side, custom_given, copts, enabled)
  /\ Return(t, "ValueError")
  /\ NoWrite(Fresh)
  /\ UNCHANGED <<running_engines, active_engines, strength_levels,
                 current_position, move_history, obj, chan>>

\* Lines written to handle h in one step: they reach the child, and the
\* options of `opts` are recorded in current_options.
WriteTo(log, h, opts, lines, expects) ==
  /\ Write(log, h, lines)
  /\ pending' = [pending EXCEPT ![h] = @ \o expects]
  /\ current_options' = [current_options EXCEPT ![h] = PutAll(@, opts)]

\* set_engine with the engine the role already has (lines 189-194)
SetEngineSame(t, side, engine_id, level, custom_given, copts, enabled) ==
  /\ pc[t] = "idle" /\ side \in Roles
  /\ engine_id \in DOMAIN available_engines
  /\ active_engines[side] = engine_id
  /\ StoreOptions(side, custom_given, copts, enabled)
  /\ strength_levels' = [strength_levels EXCEPT ![side] = Clamp(engine_id, level)]
  /\ LET opts == StrengthOptions(engine_id, Clamp(engine_id, level)) IN
     IF Has(running_engines, engine_id) /\ opts # <<>>
     THEN LET h == Get(running_engines, engine_id) IN
          IF Writable(h)
          THEN /\ WriteTo(Fresh, h, opts, SetoptionLines(opts), <<>>)
               /\ Return(t, "True")
               /\ UNCHANGED <<state, alive, stdout>>
          ELSE /\ \E s \in FailStates(h) : state' = [state EXCEPT ![h] = s]
               /\ Return(t, "RuntimeError")
               /\ NoWrite(Fresh)
               /\ UNCHANGED <<current_options, chan>>
     ELSE /\ Return(t, "True")
          /\ NoWrite(Fresh)
          /\ UNCHANGED <<state, current_options, chan>>
  /\ UNCHANGED <<running_engines, active_engines, current_position, move_history,
                 created, config, process, lock>>

\* set_engine to another engine that is already in running_engines (line 197)
SetEngineRunning(t, side, engine_id, level, custom_given, copts, enabled) ==
  /\ pc[t] = "idle" /\ side \in Roles
  /\ engine_id \in DOMAIN available_engines
  /\ active_engines[side] # engine_id
  /\ Has(running_engines, engine_id)
  /\ StoreOptions(side, custom_given, copts, enabled)
  /\ Thread(t, "se_apply", "none", 0, active_engines[side], 0, <<>>, Running,
            SetEngineOp(side, engine_id, level, custom_given, copts, enabled))
  /\ NoWrite(Fresh)
  /\ UNCHANGED <<running_engines, active_engines, strength_levels,
                 current_position, move_history, obj, chan>>

\* EngineProcess.start's except clause (lines 137-139): state = ERROR, then
\* self.stop(), which requests self.lock while start still holds it.
StartExcept(t, h) ==
  /\ state' = [state EXCEPT ![h] = "ERROR"]
  /\ Thread(t, "stop_lock", "start_raise", h, old[t], 0, <<>>, Running, op[t])

\* set_engine to another engine that is not running: _start_engine constructs
\* an EngineProcess and start() takes its lock, spawns the child and sends
\* 'usi' (engine_manager.py 197-231, engine_process.py 60-83).
SetEngineStart(t, side, engine_id, level, custom_given, copts, enabled) ==
  /\ pc[t] = "idle" /\ side \in Roles
  /\ engine_id \in DOMAIN available_engines
  /\ active_engines[side] # engine_id
  /\ ~Has(running_engines, engine_id)
  /\ created < MaxHandles
  /\ StoreOptions(side, custom_given, copts, enabled)
  /\ LET h == created + 1
         call == SetEngineOp(side, engine_id, level, custom_given, copts, enabled)
     IN
     /\ created' = h
     /\ config' = [config EXCEPT ![h] = engine_id]
     /\ lock' = [lock EXCEPT ![h] = t]
     /\ \E spawned \in BOOLEAN :
          IF spawned
          THEN /\ process' = [process EXCEPT ![h] = "Popen"]
               /\ alive' = [alive EXCEPT ![h] = TRUE]
               /\ state' = [state EXCEPT ![h] = "INITIALIZING"]
               /\ Write(Fresh, h, <<<<"usi">>>>)
               /\ pending' = [pending EXCEPT ![h] = <<<<"usi", t>>>>]
               /\ Thread(t, "start_usi", "none", h, active_engines[side], 0, <<>>,
                         Running, call)
          ELSE /\ state' = [state EXCEPT ![h] = "ERROR"]
               /\ Thread(t, "stop_lock", "start_raise", h, active_engines[side], 0,
                         <<>>, Running, call)
               /\ NoWrite(Fresh)
               /\ UNCHANGED <<process, alive, pending>>
  /\ UNCHANGED <<running_engines, active_engines, strength_levels,
                 current_position, move_history, current_options, stdout>>

\* ------------------------------------------------------ EngineProcess.start
\* _read_line returns at once: a line is buffered, or the stream is at EOF
AtEof(h) == ~alive[h] /\ stdout[h] = <<>>
Readable(h) == process[h] = None \/ stdout[h] # <<>> \/ AtEof(h)

\* One iteration of the 'usiok' loop (lines 89-111): a blocking read, then
\* the line's handling and the deadline check of the next iteration.  At EOF
\* the reads return None until the deadline passes.
StartUsiLoop(t) ==
  /\ pc[t] = "start_usi"
  /\ LET h == hd[t] IN
     IF stdout[h] # <<>>
     THEN /\ stdout' = [stdout EXCEPT ![h] = Tail(@)]
          /\ IF Head(stdout[h]).line = <<"usiok">>
             THEN /\ Thread(t, "start_options", cont[t], h, old[t], 0, <<>>, Running, op[t])
                  /\ UNCHANGED state
             ELSE \E expired \in BOOLEAN :
                    /\ ~expired => ticks[t] + 1 < MaxTicks
                    /\ IF expired
                       THEN StartExcept(t, h)
                       ELSE /\ Thread(t, "start_usi", cont[t], h, old[t],
                                      ticks[t] + 1, <<>>, Running, op[t])
                            /\ UNCHANGED state
     ELSE /\ AtEof(h)
          /\ StartExcept(t, h)
          /\ UNCHANGED stdout
  /\ UNCHANGED <<mgr, created, config, process, lock, current_options,
                 alive, stdin, child_position, pending>>

\* Default options, then 'isready' (lines 115-127)
StartOptions(t) ==
  /\ pc[t] = "start_options"
  /\ LET h == hd[t]
         opts == available_engines[config[h]].defaultOptions
     IN IF Writable(h)
        THEN /\ WriteTo(stdin, h, opts, SetoptionLines(opts) \o <<<<"isready">>>>,
                        <<<<"isready", t>>>>)
             /\ Thread(t, "start_ready", cont[t], h, old[t], 0, <<>>, Running, op[t])
             /\ UNCHANGED state
        ELSE /\ StartExcept(t, h)
             /\ UNCHANGED <<stdin, child_position, pending, current_options>>
  /\ UNCHANGED <<mgr, created, config, process, lock, alive, stdout>>

\* str.startswith
StartsWith(str, prefix) ==
  Len(str) >= Len(prefix) /\ SubSeq(str, 1, Len(prefix)) = prefix

\* Where the caller of _start_engine goes on when start() has returned
AfterStart(t) == IF op[t].name = "inspect" THEN "inspect_after" ELSE "se_apply"

\* _wait_for: `line == target or line.startswith(target)`.  The target has
\* no blank in it, so the line starts with it when its first field does.
IsTarget(line, target) == Len(line) > 0 /\ StartsWith(line[1], target)

\* One iteration of _wait_for("readyok") (lines 129-134, 317-324).  On
\* 'readyok' start sets READY and releases the lock, and _start_engine puts
\* the handle into running_engines (engine_manager.py 232).
StartReadyLoop(t) ==
  /\ pc[t] = "start_ready"
  /\ LET h == hd[t] IN
     IF stdout[h] # <<>>
     THEN /\ stdout' = [stdout EXCEPT ![h] = Tail(@)]
          /\ IF IsTarget(Head(stdout[h]).line, "readyok")
             THEN /\ state' = [state EXCEPT ![h] = "READY"]
                  /\ lock' = [lock EXCEPT ![h] = "none"]
                  /\ running_engines' = Put(running_engines, config[h], h)
                  /\ Thread(t, AfterStart(t), cont[t], 0, old[t], 0, <<>>, Running, op[t])
             ELSE /\ \E expired \in BOOLEAN :
                       /\ ~expired => ticks[t] + 1 < MaxTicks
                       /\ IF expired
                          THEN StartExcept(t, h)
                          ELSE /\ Thread(t, "start_ready", cont[t], h, old[t],
                                         ticks[t] + 1, <<>>, Running, op[t])
                               /\ UNCHANGED state
                  /\ UNCHANGED <<lock, running_engines>>
     ELSE /\ AtEof(h)
          /\ StartExcept(t, h)
          /\ UNCHANGED <<stdout, lock, running_engines>>
  /\ UNCHANGED <<active_engines, strength_levels, custom_options,
                 analysis_enabled, current_position, move_history, created,
                 config, process, current_options, alive, stdin, child_position,
                 pending>>

\* ------------------------------------------------------- EngineProcess.stop
\* What follows a stop(): the caller's next statements.
\*   start_raise: start raises, _start_engine returns False, set_engine too
\*   se_true:     _stop_engine deletes the entry, set_engine returns True
\*   shutdown:    _stop_engine deletes the entry, shutdown goes on with its list
\*   inspect:     _stop_engine deletes the entry, get_engine_options returns
RECURSIVE NextToStop(_, _)
NextToStop(td, re) ==
  IF td = <<>> \/ Has(re, Head(td)) THEN td ELSE NextToStop(Tail(td), re)

AfterStop(t) ==
  IF cont[t] = "start_raise"
  THEN /\ Return(t, "False")
       /\ UNCHANGED running_engines
  ELSE IF ~Has(running_engines, old[t])
  THEN /\ Return(t, "KeyError")
       /\ UNCHANGED running_engines
  ELSE /\ running_engines' = Del(running_engines, old[t])
       /\ IF cont[t] = "se_true"
          THEN Return(t, "True")
          ELSE IF cont[t] = "inspect"
          THEN Return(t, "options")
          ELSE LET td == NextToStop(todo[t], Del(running_engines, old[t])) IN
               IF td = <<>>
               THEN Return(t, "None")
               ELSE Thread(t, "stop_lock", "shutdown",
                           Get(running_engines, Head(td)), Head(td), 0, Tail(td),
                           Running, op[t])

\* stop() (lines 144-162): once the lock is free, send 'quit', wait, kill
\* the child if it is still there, release the process.  Every caller drops
\* the handle afterwards, and the model forgets its options and position.
Stop(t) ==
  /\ pc[t] = "stop_lock"
  /\ lock[hd[t]] = "none"
  /\ LET h == hd[t] IN
     IF process[h] = None
     THEN UNCHANGED <<process, state, current_options, child>>
     ELSE /\ process' = [process EXCEPT ![h] = None]
          /\ current_options' = [current_options EXCEPT ![h] = <<>>]
          /\ state' = [state EXCEPT ![h] = "IDLE"]
          /\ alive' = [alive EXCEPT ![h] = FALSE]
          /\ stdin' = [stdin EXCEPT ![h] =
                         IF Writable(h) THEN Append(@, <<"quit">>) ELSE @]
          /\ child_position' = [child_position EXCEPT ![h] = <<>>]
          /\ stdout' = [stdout EXCEPT ![h] = <<>>]
          /\ pending' = [pending EXCEPT ![h] = <<>>]
  /\ AfterStop(t)
  /\ UNCHANGED <<active_engines, strength_levels, custom_options,
                 analysis_enabled, current_position, move_history, created,
                 config, lock>>

\* The lines a swap writes to the new engine (set_engine lines 203-209):
\* _apply_strength, _apply_custom_options, then _sync_game_state.
SwapLinesSyncFirst(side, engine_id, level) ==
  << <<"usinewgame">>, format_position(current_position, move_history) >>
    \o SetoptionLines(StrengthOptions(engine_id, level) \o custom_options[side])
SwapLines(side, engine_id, level) ==
  SetoptionLines(StrengthOptions(engine_id, level) \o custom_options[side])
    \o << <<"usinewgame">>, format_position(current_position, move_history) >>

\* set_engine lines 203-220: strength, custom options, game state, then the
\* role is assigned and the old engine is stopped if no role has it.
SetEngineApply(t) ==
  /\ pc[t] = "se_apply"
  /\ LET side == op[t].side
         engine_id == op[t].engine_id
         level == Clamp(engine_id, op[t].level)
         opts == StrengthOptions(engine_id, level) \o custom_options[side]
         lines == SwapLines(side, engine_id, level)
         a == [active_engines EXCEPT ![side] = engine_id]
         assign ==
           /\ active_engines' = a
           /\ strength_levels' = [strength_levels EXCEPT ![side] = level]
           /\ IF old[t] # None /\ _can_stop_engine(a, old[t])
              THEN StopEngineOr(t, running_engines, old[t], "se_true", <<>>, op[t],
                                Return(t, "True"))
              ELSE Return(t, "True")
     IN IF ~Has(running_engines, engine_id)
        THEN /\ assign
             /\ UNCHANGED <<state, current_options, child>>
        ELSE LET h == Get(running_engines, engine_id) IN
             IF Writable(h)
             THEN /\ WriteTo(stdin, h, opts, lines, <<>>)
                  /\ assign
                  /\ UNCHANGED <<state, alive, stdout>>
             ELSE /\ \E s \in FailStates(h) : state' = [state EXCEPT ![h] = s]
                  /\ Return(t, "RuntimeError")
                  /\ UNCHANGED <<active_engines, strength_levels, current_options,
                                 child>>
  /\ UNCHANGED <<running_engines, custom_options, analysis_enabled,
                 current_position, move_history, created, config, process,
                 lock>>

\* ------------------------------------------------------------- the search
GetMoveParams == [NoGoParams EXCEPT !.btime = "600000", !.wtime = "600000",
                                    !.binc = "0", !.winc = "0"]
AnalyzeParams == [NoGoParams EXCEPT !.movetime = "1000"]

ApiOp(name, side, engine_id, position, moves) ==
  [name |-> name, side |-> side, engine_id |-> engine_id, level |-> 10,
   custom_given |-> FALSE, copts |-> <<>>, enabled |-> None,
   position |-> position, moves |-> moves]

\* get_move up to the first read of go() (engine_manager.py 385-398,
\* engine_process.py 220-232): THINKING, then the 'go' line.
GetMoveCall(t, side) ==
  /\ pc[t] = "idle"
  /\ LET engine_id == active_engines[side] IN
     IF engine_id = None \/ ~Has(running_engines, engine_id)
     THEN /\ Return(t, "None")
          /\ NoWrite(Fresh)
          /\ UNCHANGED <<state, chan>>
     ELSE LET h == Get(running_engines, engine_id) IN
          IF Writable(h)
          THEN /\ Len(pending[h]) < MaxPending
               /\ state' = [state EXCEPT ![h] = "THINKING"]
               /\ Write(Fresh, h, <<format_go(GetMoveParams)>>)
               /\ pending' = [pending EXCEPT ![h] = Append(@, <<"go", t>>)]
               /\ Thread(t, "go_loop", "get_move", h, None, 0, <<>>, Running,
                         ApiOp("get_move", side, None, Startpos, <<>>))
               /\ UNCHANGED <<alive, stdout>>
          ELSE /\ \E s \in IF process[h] = None THEN {"THINKING"}
                           ELSE {"THINKING", "ERROR"} :
                    state' = [state EXCEPT ![h] = s]
               /\ Return(t, "None")
               /\ NoWrite(Fresh)
               /\ UNCHANGED chan
  /\ UNCHANGED <<mgr, created, config, process, lock, current_options>>

\* A side-to-move rule that reads the SFEN before the move list
SideFromSfenFirst(position, moves) ==
  IF position = Startpos THEN "black"
  ELSE IF Len(position) >= 2
  THEN IF position[2] = "b" THEN "black" ELSE "white"
  ELSE IF moves # <<>>
  THEN IF Len(moves) % 2 = 0 THEN "black" ELSE "white"
  ELSE "black"

\* _get_side_to_move (engine_manager.py 255-282)
_get_side_to_move(position, moves) ==
  IF moves # <<>>
  THEN IF Len(moves) % 2 = 0 THEN "black" ELSE "white"
  ELSE IF position = Startpos THEN "black"
  ELSE IF Len(position) >= 2
  THEN IF position[2] = "b" THEN "black" ELSE "white"
  ELSE "black"

\* An engine choice that takes black's engine before the side to move's
AnalysisEngineBlackFirst(position, moves, engine_id) ==
  IF engine_id # None THEN engine_id
  ELSE IF active_engines["black"] # None THEN active_engines["black"]
  ELSE active_engines["white"]

\* An engine choice that falls back to the engine of any role
AnalysisEngineAnyRole(position, moves, engine_id) ==
  IF engine_id # None THEN engine_id
  ELSE LET e == active_engines[_get_side_to_move(position, moves)] IN
       IF e # None THEN e
       ELSE IF active_engines["black"] # None THEN active_engines["black"]
       ELSE IF active_engines["white"] # None THEN active_engines["white"]
       ELSE active_engines["analysis"]

\* The engine analyze_position searches with (lines 436-447)
AnalysisEngine(position, moves, engine_id) ==
  IF engine_id # None THEN engine_id
  ELSE LET e == active_engines[_get_side_to_move(position, moves)] IN
       IF e # None THEN e
       ELSE IF active_engines["black"] # None THEN active_engines["black"]
       ELSE active_engines["white"]

\* analyze_position up to the first read of go() (lines 436-468): the
\* position line for the analysed position, THINKING, then the 'go' line.
AnalyzeCall(t, position, moves, id) ==
  /\ pc[t] = "idle"
  /\ LET engine_id == AnalysisEngine(position, moves, id) IN
     IF engine_id = None \/ ~Has(running_engines, engine_id)
     THEN /\ Return(t, "None")
          /\ NoWrite(Fresh)
          /\ UNCHANGED <<state, chan>>
     ELSE LET h == Get(running_engines, engine_id) IN
          IF Writable(h)
          THEN /\ Len(pending[h]) < MaxPending
               /\ state' = [state EXCEPT ![h] = "THINKING"]
               /\ Write(Fresh, h, <<format_position(position, moves),
                                    format_go(AnalyzeParams)>>)
               /\ pending' = [pending EXCEPT ![h] = Append(@, <<"go", t>>)]
               /\ Thread(t, "go_loop", "analyze", h, None, 0, <<>>, Running,
                         ApiOp("analyze_position", None, id, position, moves))
               /\ UNCHANGED <<alive, stdout>>
          ELSE /\ \E s \in FailStates(h) : state' = [state EXCEPT ![h] = s]
               /\ Return(t, "None")
               /\ NoWrite(Fresh)
               /\ UNCHANGED chan
  /\ UNCHANGED <<mgr, created, config, process, lock, current_options>>

\* The call of thread t ends with the move the engine sent for the 'go' of
\* thread `tag`.
ReturnMove(t, tag) == Thread(t, "idle", "none", 0, None, 0, <<>>, <<"move", tag>>, NoOp)

\* One read of go()'s loop (engine_process.py 237-252) and, on 'bestmove',
\* the caller's statements after go() (engine_manager.py 400-409, 470-482).
\* A read on a released process or at EOF returns None and the loop goes on.
GoLoop(t) ==
  /\ pc[t] = "go_loop"
  /\ LET h == hd[t] IN
     /\ process[h] # None /\ stdout[h] # <<>>
     /\ stdout' = [stdout EXCEPT ![h] = Tail(@)]
     /\ LET rec == Head(stdout[h]) IN
        IF rec.line[1] = "info"
        THEN /\ IF parse_info(rec.line).raised
                THEN Return(t, "None")
                ELSE Thread(t, "go_loop", cont[t], h, None, 0, <<>>, Running, op[t])
             /\ UNCHANGED <<state, stdin, child_position>>
        ELSE IF rec.line[1] = "bestmove"
        THEN IF cont[t] = "get_move"
             THEN /\ state' = [state EXCEPT ![h] = "READY"]
                  /\ ReturnMove(t, rec.re)
                  /\ UNCHANGED <<stdin, child_position>>
             ELSE IF Writable(h)
             THEN /\ state' = [state EXCEPT ![h] = "READY"]
                  /\ Write(stdin, h,
                           <<format_position(current_position, move_history)>>)
                  /\ ReturnMove(t, rec.re)
             ELSE /\ \E s \in {"READY", "ERROR"} : state' = [state EXCEPT ![h] = s]
                  /\ Return(t, "None")
                  /\ UNCHANGED <<stdin, child_position>>
        ELSE /\ Thread(t, "go_loop", cont[t], h, None, 0, <<>>, Running, op[t])
             /\ UNCHANGED <<state, stdin, child_position>>
  /\ UNCHANGED <<mgr, created, config, process, lock, current_options, alive,
                 pending>>

\* -------------------------------------------------------- update_position
\* The handles update_position reaches: those of running_engines, in the
\* dict's order, before the first one whose write fails.
RECURSIVE SyncPrefix(_)
SyncPrefix(items) ==
  IF items = <<>> \/ ~Writable(Head(items)[2]) THEN <<>>
  ELSE <<Head(items)[2]>> \o SyncPrefix(Tail(items))
Range(q) == {q[i] : i \in 1..Len(q)}

\* `moves or []` for a move list that may be absent
OrEmpty(a) == IF a.given THEN a.moves ELSE <<>>

\* An update that keeps the old move list
SetViewPositionOnly(position, moves) ==
  /\ current_position' = position
  /\ UNCHANGED move_history

\* update_position lines 355-356
SetView(position, moves) ==
  /\ current_position' = position
  /\ move_history' = moves

\* update_position (lines 355-360) with _sync_game_state (343-345) on each
\* running engine; a failed write raises out of the loop.
UpdatePositionCall(t, position, moves) ==
  /\ pc[t] = "idle"
  /\ SetView(position, moves)
  /\ LET reached == SyncPrefix(running_engines)
         lines == << <<"usinewgame">>, format_position(position, moves) >>
     IN /\ stdin' = [h \in Handles |->
                       IF h \in Range(reached) THEN lines ELSE <<>>]
        /\ child_position' = [h \in Handles |->
                       IF h \in Range(reached) THEN lines[2]
                       ELSE child_position[h]]
        /\ IF Len(reached) = Len(running_engines)
           THEN /\ Return(t, "None")
                /\ UNCHANGED state
           ELSE LET h == running_engines[Len(reached) + 1][2] IN
                /\ \E s \in FailStates(h) : state' = [state EXCEPT ![h] = s]
                /\ Return(t, "RuntimeError")
  /\ UNCHANGED <<running_engines, active_engines, strength_levels,
                 custom_options, analysis_enabled, created, config, process,
                 lock, current_options, alive, stdout, pending>>

\* ----------------------------------------------------------------- shutdown
\* shutdown (lines 490-491): _stop_engine on each key of running_engines
ShutdownCall(t) ==
  /\ pc[t] = "idle"
  /\ NoWrite(Fresh)
  /\ IF running_engines = <<>>
     THEN Return(t, "None")
     ELSE Thread(t, "stop_lock", "shutdown", running_engines[1][2],
                 running_engines[1][1], 0,
                 [i \in 1..(Len(running_engines) - 1) |-> running_engines[i + 1][1]],
                 Running, ApiOp("shutdown", None, None, Startpos, <<>>))
  /\ UNCHANGED <<mgr, obj, chan>>

\* ------------------------------------------------------ get_engine_options
\* get_engine_options(engine_id) (main.py 357-403) up to its await: 404 for
\* an id that is not in the catalog; the options of a running engine; else
\* _start_engine in the thread pool (engine_manager.py 222-231,
\* engine_process.py 60-83).
InspectCall(t, engine_id) ==
  /\ pc[t] = "idle"
  /\ LET call == ApiOp("inspect", None, engine_id, Startpos, <<>>) IN
     IF engine_id \notin DOMAIN available_engines
     THEN /\ Return(t, "HTTPException")
          /\ NoWrite(Fresh)
          /\ UNCHANGED <<obj, chan>>
     ELSE IF Has(running_engines, engine_id)
     THEN /\ Return(t, "options")
          /\ NoWrite(Fresh)
          /\ UNCHANGED <<obj, chan>>
     ELSE /\ created < MaxHandles
          /\ LET h == created + 1 IN
             /\ created' = h
             /\ config' = [config EXCEPT ![h] = engine_id]
             /\ lock' = [lock EXCEPT ![h] = t]
             /\ \E spawned \in BOOLEAN :
                  IF spawned
                  THEN /\ process' = [process EXCEPT ![h] = "Popen"]
                       /\ alive' = [alive EXCEPT ![h] = TRUE]
                       /\ state' = [state EXCEPT ![h] = "INITIALIZING"]
                       /\ Write(Fresh, h, <<<<"usi">>>>)
                       /\ pending' = [pending EXCEPT ![h] = <<<<"usi", t>>>>]
                       /\ Thread(t, "start_usi", "inspect", h, None, 0, <<>>,
                                 Running, call)
                  ELSE /\ state' = [state EXCEPT ![h] = "ERROR"]
                       /\ Thread(t, "stop_lock", "start_raise", h, None, 0,
                                 <<>>, Running, call)
                       /\ NoWrite(Fresh)
                       /\ UNCHANGED <<process, alive, pending>>
          /\ UNCHANGED <<current_options, stdout>>
  /\ UNCHANGED mgr

\* get_engine_options after its await (main.py 377-397), for an engine that
\* was not running when it was called: read the handle's options, then
\* _stop_engine(engine_id).
InspectAfter(t) ==
  /\ pc[t] = "inspect_after"
  /\ LET engine_id == op[t].engine_id IN
     IF Has(running_engines, engine_id)
     THEN Thread(t, "stop_lock", "inspect", Get(running_engines, engine_id),
                 engine_id, 0, <<>>, Running, op[t])
     ELSE Return(t, "HTTPException")
  /\ UNCHANGED <<mgr, obj, chan, stdin, child_position>>

\* ----------------------------------------------------------- specifications
\* What callers pass to set_engine.
SideInputs == Roles \cup {"green"}
IdInputs == EngineIds \cup {"zz"}
Level10 == {10}
NoCustom == {[given |-> FALSE, opts |-> <<>>]}
NoEnabled == {None}

\* The first step of set_engine(side, engine_id, level, custom_options,
\* enabled): the branch its arguments and the manager's state select.  None
\* as engine id disables the role.
SetEngine(t, side, engine_id, level, c, enabled) ==
  \/ SetEngineInvalidSide(t, side, engine_id, level, c.given, c.opts, enabled)
  \/ engine_id = None /\ SetEngineDisable(t, side, level, c.given, c.opts, enabled)
  \/ SetEngineUnknown(t, side, engine_id, level, c.given, c.opts, enabled)
  \/ SetEngineSame(t, side, engine_id, level, c.given, c.opts, enabled)
  \/ SetEngineRunning(t, side, engine_id, level, c.given, c.opts, enabled)
  \/ SetEngineStart(t, side, engine_id, level, c.given, c.opts, enabled)

SetEngineCall(t, Sides, Ids, Levels, Customs, Enableds) ==
  \E side \in Sides, engine_id \in Ids \cup {None}, level \in Levels,
     c \in Customs, enabled \in Enableds :
    SetEngine(t, side, engine_id, level, c, enabled)

\* The steps of a thread inside EngineProcess.start
StartSteps(t) ==
  \/ StartUsiLoop(t)
  \/ StartOptions(t)
  \/ StartReadyLoop(t)

SetEngineSteps(t) ==
  \/ StartSteps(t)
  \/ Stop(t)
  \/ SetEngineApply(t)

ChildSteps ==
  \E h \in Handles : ChildReply(h) \/ ChildChatter(h) \/ ChildExit(h)

\* One thread that only calls set_engine, with every side and engine id.
NextSetEngine ==
  \/ SetEngineCall("t1", SideInputs, IdInputs, Level10, NoCustom, NoEnabled)
  \/ SetEngineSteps("t1")
  \/ ChildSteps
SpecSetEngine == Init /\ [][NextSetEngine]_vars

\* One thread that calls the whole API, with one engine of the catalog.
ApiSides == {"black", "analysis", "green"}
ApiIds == {"e1", "zz"}
Next ==
  \/ SetEngineCall("t1", ApiSides, ApiIds, Level10, NoCustom, NoEnabled)
  \/ \E side \in ApiSides \cap Roles : GetMoveCall("t1", side)
  \/ \E position \in Positions, id \in {None, "e1"} :
       AnalyzeCall("t1", position, <<>>, id)
  \/ \E position \in Positions : UpdatePositionCall("t1", position, <<>>)
  \/ ShutdownCall("t1")
  \/ SetEngineSteps("t1")
  \/ GoLoop("t1")
  \/ ChildSteps
Spec == Init /\ [][Next]_vars

\* One thread that assigns two engines to the players and moves the game on.
NextSync ==
  \/ SetEngineCall("t1", {"black", "white", "green"}, IdInputs, Level10,
                   NoCustom, NoEnabled)
  \/ \E position \in Positions : UpdatePositionCall("t1", position, <<>>)
  \/ SetEngineSteps("t1")
  \/ ChildSteps
SpecSync == Init /\ [][NextSync]_vars

\* Two request threads on engine e1: set_engine runs in the HTTP layer's
\* thread pool (main.py 486-496), and the searches of both players go to
\* the one EngineProcess.  The child answers or exits.  With one engine id
\* no call reaches stop() except through start's except clause.
ConcCall(t) ==
  \E side \in {"black", "white"} :
    \/ SetEngineSame(t, side, "e1", 10, FALSE, <<>>, None)
    \/ SetEngineRunning(t, side, "e1", 10, FALSE, <<>>, None)
    \/ SetEngineStart(t, side, "e1", 10, FALSE, <<>>, None)
    \/ GetMoveCall(t, side)
NextConc ==
  \/ \E t \in AllThreads :
       \/ ConcCall(t)
       \/ StartSteps(t)
       \/ SetEngineApply(t)
       \/ GoLoop(t)
  \/ \E h \in Handles : ChildReply(h) \/ ChildExit(h)
SpecConc == Init /\ [][NextConc]_vars

\* One thread that calls set_engine with levels below, inside and above the
\* range of both descriptors.
LevelInputs == {0, 5, 11}
NextLevels ==
  \/ SetEngineCall("t1", {"black", "green"}, IdInputs, LevelInputs, NoCustom,
                   NoEnabled)
  \/ SetEngineSteps("t1")
  \/ ChildSteps
SpecLevels == Init /\ [][NextLevels]_vars

\* One thread that calls set_engine with and without custom options.
CustomInputs == {[given |-> FALSE, opts |-> <<>>],
                 [given |-> TRUE, opts |-> << <<"Hash", "64">> >>]}
NextSwap ==
  \/ SetEngineCall("t1", {"black", "white", "green"}, IdInputs, Level10,
                   CustomInputs, NoEnabled)
  \/ SetEngineSteps("t1")
  \/ ChildSteps
SpecSwap == Init /\ [][NextSwap]_vars

\* One thread that assigns and clears engines for the three roles and
\* analyses positions without naming an engine.
PlayersCall(t) ==
  \E side \in Roles, engine_id \in EngineIds :
    \/ SetEngineDisable(t, side, 10, FALSE, <<>>, None)
    \/ SetEngineSame(t, side, engine_id, 10, FALSE, <<>>, None)
    \/ SetEngineRunning(t, side, engine_id, 10, FALSE, <<>>, None)
    \/ SetEngineStart(t, side, engine_id, 10, FALSE, <<>>, None)
NextAnalyze ==
  \/ PlayersCall("t1")
  \/ \E position \in Positions, moves \in MoveLists :
       AnalyzeCall("t1", position, moves, None)
  \/ SetEngineSteps("t1")
  \/ GoLoop("t1")
  \/ \E h \in Handles : ChildReply(h) \/ ChildExit(h)
SpecAnalyze == Init /\ [][NextAnalyze]_vars

\* One thread that starts engines for black; the child also writes lines
\* that only resemble 'usiok' and 'readyok'.
NextStart ==
  \/ \E engine_id \in EngineIds :
       SetEngineStart("t1", "black", engine_id, 10, FALSE, <<>>, None)
  \/ SetEngineSteps("t1")
  \/ \E h \in Handles :
       ChildReply(h) \/ ChildChatter(h) \/ ChildNoise(h) \/ ChildExit(h)
SpecStart == Init /\ [][NextStart]_vars

\* Two request threads: one inspects the options of e1 while the other sets
\* and clears black's engine.
NextInspect ==
  \/ InspectCall("t1", "e1") \/ InspectCall("t1", "zz")
  \/ InspectAfter("t1")
  \/ SetEngineDisable("t2", "black", 10, FALSE, <<>>, None)
  \/ SetEngineSame("t2", "black", "e1", 10, FALSE, <<>>, None)
  \/ SetEngineRunning("t2", "black", "e1", 10, FALSE, <<>>, None)
  \/ SetEngineStart("t2", "black", "e1", 10, FALSE, <<>>, None)
  \/ \E t \in AllThreads : SetEngineSteps(t)
  \/ \E h \in Handles : ChildReply(h) \/ ChildExit(h)
SpecInspect == Init /\ [][NextInspect]_vars

\* One thread that calls the whole API for black and engine e1, with move
\* lists given or absent; the child answers or exits.
MoveArgs == {a \in [given : BOOLEAN, moves : MoveLists] : a.given \/ a.moves = <<>>}
NextView ==
  \/ SetEngineDisable("t1", "black", 10, FALSE, <<>>, None)
  \/ SetEngineSame("t1", "black", "e1", 10, FALSE, <<>>, None)
  \/ SetEngineStart("t1", "black", "e1", 10, FALSE, <<>>, None)
  \/ GetMoveCall("t1", "black")
  \/ \E position \in Positions, a \in MoveArgs :
       \/ AnalyzeCall("t1", position, OrEmpty(a), None)
       \/ UpdatePositionCall("t1", position, OrEmpty(a))
  \/ ShutdownCall("t1")
  \/ SetEngineSteps("t1")
  \/ GoLoop("t1")
  \/ \E h \in Handles : ChildReply(h) \/ ChildExit(h)
SpecView == Init /\ [][NextView]_vars

\* _apply_strength on its own, for every strengthControl and level 1..10
StrengthControls ==
  [supported : BOOLEAN, methods : SUBSET {"skillLevel", "uciElo", "time"}]
StrengthLevels == 1..10
InitStrength ==
  /\ InitState
  /\ arg \in StrengthControls \X StrengthLevels
  /\ ret = NotCalled
ApplyStrength ==
  /\ arg # <<>> /\ ~ret.called
  /\ ret' = [called |-> TRUE, out |-> SetoptionLines(StrengthOptionsOf(arg[1], arg[2]))]
  /\ UNCHANGED <<mgr, obj, child, thr, arg>>
SpecStrength == InitStrength /\ [][ApplyStrength]_vars

\* _get_side_to_move on its own.  A position is the sequence of the fields
\* str.split() finds in it; the move list may be absent (None), which
\* `if moves:` treats as the empty list.
MaxMoves == 3
SidePositions ==
  {<<>>, Startpos, <<"sfenA">>, <<"sfenA", "x">>,
   <<"sfenA", "b", "-", "1">>, <<"sfenA", "w", "-", "1">>}
RECURSIVE MovesUpTo(_)
MovesUpTo(n) ==
  IF n = 0 THEN {<<>>}
  ELSE MovesUpTo(n - 1) \cup
       {Append(m, x) : m \in {q \in MovesUpTo(n - 1) : Len(q) = n - 1},
                       x \in {"7g7f", "3c3d"}}
InitSide ==
  /\ InitState
  /\ arg \in [position : SidePositions, given : BOOLEAN,
              moves : MovesUpTo(MaxMoves)]
  /\ arg.given \/ arg.moves = <<>>
  /\ ret = NotCalled
ApplySide ==
  /\ ~ret.called
  /\ ret' = [called |-> TRUE,
             out |-> _get_side_to_move(arg.position, arg.moves)]
  /\ UNCHANGED <<mgr, obj, child, thr, arg>>
SpecSide == InitSide /\ [][ApplySide]_vars

\* load_preferences on its own (engine_manager.py 85-115).  The preference
\* file exists or not, parses as JSON or not, and holds some preferences.
PlayerPrefs ==
  [engineId : EngineIds \cup {None}, strengthLevel : {5, 10},
   customOptions : {<<>>}]
AnalysisPrefs ==
  [engineId : EngineIds \cup {None}, strengthLevel : {5, 10},
   enabled : BOOLEAN, customOptions : {<<>>}]
PreferenceFiles ==
  [exists : BOOLEAN, parses : BOOLEAN,
   content : [black : PlayerPrefs, white : PlayerPrefs, analysis : AnalysisPrefs]]
DefaultPreferences ==
  [black |-> [engineId |-> "yaneuraou", strengthLevel |-> 10, customOptions |-> <<>>],
   white |-> [engineId |-> "yaneuraou", strengthLevel |-> 10, customOptions |-> <<>>],
   analysis |-> [engineId |-> None, strengthLevel |-> 10, enabled |-> FALSE,
                 customOptions |-> <<>>]]
load_preferences(file) ==
  IF ~file.exists THEN DefaultPreferences
  ELSE IF file.parses THEN file.content
  ELSE DefaultPreferences
InitPreferences ==
  /\ InitState
  /\ arg \in PreferenceFiles
  /\ ret = NotCalled
LoadPreferences ==
  /\ ~ret.called
  /\ ret' = [called |-> TRUE, out |-> load_preferences(arg)]
  /\ UNCHANGED <<mgr, obj, child, thr, arg>>
SpecPreferences == InitPreferences /\ [][LoadPreferences]_vars

\* ---------------------------------------------------------------- discovery
\* load_engine_configs on its own (engine_config.py 69-128).  A folder of
\* the engines root: whether it has a config.json, whether that parses, the
\* keys of the JSON object (and those whose value is null), the values the
\* validation reads, and the files that exist beside it.  A JSON value is
\* kept with its Python type.
MaxFolders == 2
CoreFields == {"id", "name", "author", "version", "description", "executable",
               "protocol", "evalFiles", "requiredFiles"}
DefaultedFields == {"features", "defaultOptions", "strength", "strengthControl",
                    "license"}
required_fields == CoreFields \cup DefaultedFields
OptionalFields ==
  {"disabled", "disabledReason", "optionalFiles", "executableAlternatives",
   "engineType", "usageNotes", "trainingFeatures", "openingBook",
   "systemRequirements", "cpuOptimization", "documentation",
   "historicalSignificance", "engineDir", "executablePath"}
required_features == {"nnue", "ponder", "multiPV", "skillLevel", "uciElo",
                      "openingBook"}
JInt(n) == [type |-> "int", v |-> n]
GoodFolder ==
  [has_config |-> TRUE, parses |-> TRUE,
   keys |-> required_fields, nulls |-> {},
   protocol |-> "USI",
   features |-> [f \in required_features |-> "bool"],
   strength |-> {"estimated_elo", "level", "notes", "minLevel", "maxLevel"},
   minLevel |-> JInt(1), maxLevel |-> JInt(10),
   strengthControl |-> {"supported", "methods", "notes"},
   defaultOptions |-> <<"str", "str">>,
   requiredFiles |-> {"engine.exe", "nn.bin"},
   files |-> {"engine.exe", "nn.bin", "book.db"}]
Folders ==
  {GoodFolder,
   [GoodFolder EXCEPT !.has_config = FALSE],
   [GoodFolder EXCEPT !.parses = FALSE],
   [GoodFolder EXCEPT !.keys = @ \ {"id"}],
   [GoodFolder EXCEPT !.keys = @ \cup {"comment"}],
   [GoodFolder EXCEPT !.keys = @ \cup {"usageNotes"}],
   [GoodFolder EXCEPT !.keys = @ \ {"license"}],
   [GoodFolder EXCEPT !.keys = @ \ {"defaultOptions"}, !.defaultOptions = <<>>],
   [GoodFolder EXCEPT !.nulls = {"license"}],
   [GoodFolder EXCEPT !.protocol = "UCI"],
   [GoodFolder EXCEPT !.features = [f \in required_features \ {"ponder"} |-> "bool"]],
   [GoodFolder EXCEPT !.features = [@ EXCEPT !["nnue"] = "int"]],
   [GoodFolder EXCEPT !.strength = @ \ {"notes"}],
   [GoodFolder EXCEPT !.minLevel = JInt(0)],
   [GoodFolder EXCEPT !.maxLevel = JInt(11)],
   [GoodFolder EXCEPT !.minLevel = JInt(7), !.maxLevel = JInt(3)],
   [GoodFolder EXCEPT !.minLevel = [type |-> "str", v |-> 1]],
   [GoodFolder EXCEPT !.minLevel = [type |-> "bool", v |-> 1]],
   [GoodFolder EXCEPT !.strengthControl = @ \ {"methods"}],
   [GoodFolder EXCEPT !.defaultOptions = <<"str", "int">>],
   [GoodFolder EXCEPT !.files = @ \ {"nn.bin"}]}

\* EngineConfig(**config_data): a TypeError for a missing field that has no
\* default and for a key that is no field; an absent field with a default
\* takes the default.
Constructs(f) ==
  /\ CoreFields \subseteq f.keys
  /\ f.keys \subseteq required_fields \cup OptionalFields

\* isinstance(x, int): bool is a subclass of int
IsInt(x) == x.type \in {"int", "bool"}

\* validate_engine_config (lines 131-192) does not raise
validate_engine_config(f) ==
  /\ \A field \in required_fields : field \notin f.nulls
  /\ f.protocol = "USI"
  /\ \A feature \in required_features :
       /\ "features" \in f.keys /\ feature \in DOMAIN f.features
       /\ f.features[feature] = "bool"
  /\ "strength" \in f.keys
  /\ {"estimated_elo", "level", "notes", "minLevel", "maxLevel"} \subseteq f.strength
  /\ IsInt(f.minLevel) /\ IsInt(f.maxLevel)
  /\ ~(f.minLevel.v < 1 \/ f.minLevel.v > 10 \/ f.maxLevel.v < 1 \/ f.maxLevel.v > 10)
  /\ ~(f.minLevel.v > f.maxLevel.v)
  /\ "strengthControl" \in f.keys
  /\ {"supported", "methods", "notes"} \subseteq f.strengthControl
  /\ \A i \in 1..Len(f.defaultOptions) : f.defaultOptions[i] = "str"

\* verify_required_files (lines 195-207) does not raise
verify_required_files(f) == f.requiredFiles \subseteq f.files

\* One iteration of the loop over the folders: the folder is appended
Loads(f) ==
  /\ f.has_config /\ f.parses
  /\ Constructs(f)
  /\ validate_engine_config(f)
  /\ verify_required_files(f)

load_engine_configs(folders) == SelectSeq(folders, Loads)

RECURSIVE FolderLists(_)
FolderLists(n) ==
  IF n = 0 THEN {<<>>}
  ELSE FolderLists(n - 1) \cup
       {Append(l, f) : l \in {q \in FolderLists(n - 1) : Len(q) = n - 1},
                       f \in Folders}
InitDiscovery ==
  /\ InitState
  /\ arg \in FolderLists(MaxFolders)
  /\ ret = NotCalled
Discover ==
  /\ ~ret.called
  /\ ret' = [called |-> TRUE, out |-> load_engine_configs(arg)]
  /\ UNCHANGED <<mgr, obj, child, thr, arg>>
SpecDiscovery == InitDiscovery /\ [][Discover]_vars

\* parse_option on the line of an option, for options of the five types.
OptionNames == {<<"Hash">>, <<"Skill", "Level">>, <<"BookFile">>}
USIOptions ==
  {[name |-> n, type |-> "spin", default |-> <<ToString(d)>>, min |-> <<a>>,
    max |-> <<b>>, var |-> <<>>] :
     n \in OptionNames, d \in {0, 20}, a \in {-5, 0}, b \in {20, 100}}
  \cup
  {[name |-> n, type |-> "check", default |-> <<d>>, min |-> <<>>, max |-> <<>>,
    var |-> <<>>] : n \in OptionNames, d \in {"true", "false"}}
  \cup
  {[name |-> n, type |-> "combo", default |-> <<"Normal">>, min |-> <<>>,
    max |-> <<>>, var |-> v] :
     n \in OptionNames,
     v \in {<<>>, << <<"Normal">> >>, << <<"Solid">>, <<"Normal">> >>,
            << <<"Normal">>, <<"Very", "Risky">> >>}}
  \cup
  {[name |-> n, type |-> "string", default |-> d, min |-> <<>>, max |-> <<>>,
    var |-> <<>>] :
     n \in OptionNames,
     d \in {<<>>, <<"book.db">>, <<"<empty>">>, <<"my", "book.db">>}}
  \cup
  {[name |-> n, type |-> "button", default |-> <<>>, min |-> <<>>, max |-> <<>>,
    var |-> <<>>] : n \in OptionNames}
InitOption ==
  /\ InitState
  /\ arg \in USIOptions
  /\ ret = NotCalled
ParseOption ==
  /\ ~ret.called
  /\ ret' = [called |-> TRUE, out |-> parse_option(format_option(arg))]
  /\ UNCHANGED <<mgr, obj, child, thr, arg>>
SpecOption == InitOption /\ [][ParseOption]_vars

\* shutdown (main.py 142-144) while a set_engine request is still in the
\* thread pool (main.py 486-496).  t1 assigns engines and shuts down; t2
\* moves a role to an engine that is running or clears it, so it stops
\* engines and starts none.
NextShutdown ==
  \/ SetEngineCall("t1", {"black", "white", "green"}, IdInputs, Level10,
                   NoCustom, NoEnabled)
  \/ ShutdownCall("t1")
  \/ \E side \in {"black", "white"}, engine_id \in EngineIds :
       \/ SetEngineRunning("t2", side, engine_id, 10, FALSE, <<>>, None)
       \/ SetEngineDisable("t2", side, 10, FALSE, <<>>, None)
  \/ \E t \in AllThreads : SetEngineSteps(t)
  \/ \E h \in Handles : ChildReply(h) \/ ChildExit(h)
SpecShutdown == Init /\ [][NextShutdown]_vars

\* The read loop of go() (engine_process.py 234-252) on the lines the engine
\* writes for one search: best_info, the lines given to the callback, and
\* how the call ends.  arg holds the lines, ret.out the loop's variables
\* after `at` lines were read.
MaxLines == 3
InfoLines ==
  {<<"info", "depth", "5">>, <<"info", "depth", "12", "score", "cp", "45">>,
   <<"info", "score", "mate", "5", "pv", "7g7f", "3c3d">>,
   <<"info", "string", "hello">>, <<"info", "nodes">>,
   <<"info", "depth", "x">>, <<"info", "score", "cp">>}
BestmoveLines ==
  {<<"bestmove", "7g7f">>, <<"bestmove", "7g7f", "ponder", "3c3d">>,
   <<"bestmove", "resign">>}
SearchOutputs ==
  UNION {[1..n -> InfoLines \cup BestmoveLines] : n \in 1..MaxLines}

\* parse_bestmove (usi_protocol.py 197-224)
parse_bestmove(line) ==
  IF Len(line) < 2 \/ line[1] # "bestmove"
  THEN [bestmove |-> None, ponder |-> None]
  ELSE [bestmove |-> line[2],
        ponder |-> IF Len(line) >= 4 /\ line[3] = "ponder" THEN line[4] ELSE None]

\* a dict merge that keeps the value a key already has
KeepFirst(best_info, info) == PutNew(best_info, info)
\* best_info.update(info) (engine_process.py 245)
update(best_info, info) == PutAll(best_info, info)

InitGo ==
  /\ InitState
  /\ arg \in SearchOutputs
  /\ ret = NotCalled
GoStart ==
  /\ ~ret.called
  /\ ret' = [called |-> TRUE,
             out |-> [at |-> 0, end |-> "reading", best_info |-> <<>>,
                      calls |-> <<>>, bestmove |-> None, ponder |-> None]]
  /\ UNCHANGED <<mgr, obj, child, thr, arg>>
GoRead ==
  /\ ret.called /\ ret.out.end = "reading" /\ ret.out.at < Len(arg)
  /\ LET o == ret.out
         line == arg[o.at + 1]
         read == [o EXCEPT !.at = @ + 1]
     IN ret' = [ret EXCEPT !.out =
          IF line[1] = "info"
          THEN LET p == parse_info(line) IN
               IF p.raised THEN [read EXCEPT !.end = "raised"]
               ELSE IF p.info # <<>>
               THEN [read EXCEPT !.best_info = update(@, p.info),
                                 !.calls = Append(@, line)]
               ELSE read
          ELSE IF line[1] = "bestmove" /\ Len(line) >= 2
          THEN [read EXCEPT !.end = "returned",
                            !.bestmove = parse_bestmove(line).bestmove,
                            !.ponder = parse_bestmove(line).ponder]
          ELSE read]
  /\ UNCHANGED <<mgr, obj, child, thr, arg>>
SpecGo == InitGo /\ [][GoStart \/ GoRead]_vars

\* One thread that gives the two players engines at levels 3 and 7 and asks
\* for their moves.
NextRoles ==
  \/ SetEngineCall("t1", {"black", "white", "green"}, IdInputs, {3, 7},
                   NoCustom, NoEnabled)
  \/ \E side \in {"black", "white"} : GetMoveCall("t1", side)
  \/ SetEngineSteps("t1")
  \/ GoLoop("t1")
  \/ \E h \in Handles : ChildReply(h) \/ ChildExit(h)
SpecRoles == Init /\ [][NextRoles]_vars

\* One thread that calls set_engine for a player and for the analysis role,
\* with and without custom options and the enabled flag, at level 5.  An
\* engine may exit while it is being started.
FrameSides == {"black", "analysis", "green"}
EnabledInputs == {None, "True"}
NextFrame ==
  \/ SetEngineCall("t1", FrameSides, IdInputs, {5}, CustomInputs,
                   EnabledInputs)
  \/ SetEngineSteps("t1")
  \/ \E h \in Handles :
       \/ ChildReply(h)
       \/ hd["t1"] = h /\ ~Has(running_engines, config[h]) /\ ChildExit(h)
SpecFrame == Init /\ [][NextFrame]_vars

\* A search of black on e1 in one thread while another thread clears the
\* role or shuts the manager down (main.py 142-144, 477-499).  The threads
\* and the child are scheduled fairly.
NextStopSearch ==
  \/ SetEngineStart("t1", "black", "e1", 10, FALSE, <<>>, None)
  \/ StartSteps("t1")
  \/ SetEngineApply("t1")
  \/ GetMoveCall("t1", "black")
  \/ GoLoop("t1")
  \/ SetEngineDisable("t2", "black", 10, FALSE, <<>>, None)
  \/ ShutdownCall("t2")
  \/ Stop("t2")
  \/ \E h \in Handles : ChildReply(h)
SpecStopSearch ==
  /\ Init /\ [][NextStopSearch]_vars
  /\ WF_vars(GoLoop("t1"))
  /\ WF_vars(Stop("t2"))
  /\ WF_vars(\E h \in Handles : ChildReply(h))

\* ------------------------------------------------------------------ claims
AllIdle == \A t \in AllThreads : pc[t] = "idle"
ActiveIds == {active_engines[r] : r \in Roles} \ {None}
Tracked(h) == \E i \in 1..Len(running_engines) : running_engines[i][2] = h
\* start of thread t has entered its except clause
StartFailed(t) == pc[t] = "stop_lock" /\ cont[t] = "start_raise"
InStart(t) == pc[t] \in {"start_usi", "start_options", "start_ready"} \/ StartFailed(t)

\* C1: whenever no set_engine call is in progress, whatever the calls before
\* returned or raised, the engine ids of running_engines are exactly the
\* non-null engine ids of active_engines.
C1_RefcountLaw == AllIdle => Keys(running_engines) = ActiveIds

\* C2: in every state, every role's non-null engine id is in the catalog
\* and has a handle in running_engines whose child is alive and whose state
\* is READY or THINKING.
C2_ActiveEnginesLive ==
  \A r \in Roles :
    active_engines[r] # None =>
      /\ active_engines[r] \in DOMAIN available_engines
      /\ Has(running_engines, active_engines[r])
      /\ alive[Get(running_engines, active_engines[r])]
      /\ state[Get(running_engines, active_engines[r])] \in {"READY", "THINKING"}

\* C3: when the engine a set_engine call starts fails its handshake, the
\* call can complete and report the failure, the role still has its old
\* engine, whose handle is still in running_engines, and running_engines
\* has no handle for the new id.
C3_FailureIsolation ==
  \A t \in AllThreads :
    (StartFailed(t) /\ op[t].name = "set_engine") =>
      /\ ENABLED Stop(t)
      /\ active_engines[op[t].side] = old[t]
      /\ old[t] # None => Has(running_engines, old[t])
      /\ ~Has(running_engines, op[t].engine_id)

\* C4: no two calls are inside go() on one handle at the same time, and a
\* call that returns a move returns the bestmove sent for its own 'go'.
C4_OneSearchPerHandle ==
  /\ \A h \in Handles :
       Cardinality({t \in AllThreads : pc[t] = "go_loop" /\ hd[t] = h}) <= 1
  /\ \A t \in AllThreads : result[t][1] = "move" => result[t][2] = t

\* The log has 'usinewgame' immediately followed by the position line.
Synced(log, position, moves) ==
  \E i \in 1..(Len(log) - 1) :
    /\ log[i] = <<"usinewgame">>
    /\ log[i + 1] = format_position(position, moves)

\* C5: when update_position(P, M) ends, by return or by raising, every
\* handle of running_engines whose child is alive has received 'usinewgame'
\* immediately followed by the position line for (P, M) during the call.
C5_PositionSync ==
  [][\A position \in Positions :
       UpdatePositionCall("t1", position, <<>>) =>
         \A i \in 1..Len(running_engines') :
           alive'[running_engines'[i][2]] =>
             Synced(stdin'[running_engines'[i][2]], position, <<>>)]_vars

\* C6: when an analyze_position call that reached a handle ends, with a
\* result or with None, the last position line the handle's child has
\* received is the one for (current_position, move_history).
C6_AnalysisRestoresPosition ==
  [][\A t \in AllThreads :
       (pc[t] = "go_loop" /\ cont[t] = "analyze" /\ pc'[t] = "idle"
          /\ alive'[hd[t]]) =>
         child_position'[hd[t]] = format_position(current_position', move_history')]_vars

\* C7: no two children are held for one engine id at any time, and once
\* every set_engine call has returned, every child that was spawned and not
\* released has an entry in running_engines.
C7_AtomicReassignment ==
  /\ \A h1, h2 \in Handles :
       (h1 # h2 /\ process[h1] # None /\ process[h2] # None) =>
         config[h1] # config[h2]
  /\ AllIdle => \A h \in Handles : process[h] # None => Tracked(h)

\* C8: no thread requests the lock of an EngineProcess while it holds that
\* lock.
C8_NoSelfLock == \A t \in AllThreads : pc[t] = "stop_lock" => lock[hd[t]] # t

\* C9: a thread inside EngineProcess.start can always take its next step,
\* whatever the child does or does not do: no point of start waits without
\* a bound.
C9_StartTerminates ==
  \A t \in AllThreads : InStart(t) => ENABLED (StartSteps(t) \/ Stop(t))

\* C10: a start that has failed ends with the handle in ERROR, no child
\* left running and the process released: where the failed start can go no
\* further, the handle is ERROR, its child is gone and process is None.
C10_FailedStartTearsDown ==
  \A t \in AllThreads :
    (StartFailed(t) /\ ~ENABLED Stop(t)) =>
      /\ state[hd[t]] = "ERROR"
      /\ process[hd[t]] = None
      /\ ~alive[hd[t]]

\* C11: a search whose child has exited, with nothing left to read and no
\* bestmove seen, still ends: the call inside go() can take a step (to
\* ERROR and a raised error) instead of reading None forever.
C11_SearchEndsAtEof ==
  \A t \in AllThreads :
    (pc[t] = "go_loop" /\ AtEof(hd[t])) => ENABLED GoLoop(t)

\* A line a caller does not wait on a reply for
FireAndForget(line) == line[1] \in {"setoption", "position", "usinewgame"}
\* Thread t waits for a reply of handle h before and after the step
AwaitsReply(t, h) ==
  /\ pc[t] \in {"go_loop", "start_usi", "start_ready"}
  /\ hd[t] = h
  /\ pc'[t] = pc[t]

\* C12: no step writes a 'setoption', 'position' or 'usinewgame' line to a
\* child while a thread waits for that child's 'bestmove', 'usiok' or
\* 'readyok'.
C12_NoInterleaving ==
  [][\A h \in Handles :
       (\E t \in AllThreads : AwaitsReply(t, h)) =>
         ~(/\ stdin'[h] # stdin[h]
           /\ stdin'[h] # <<>>
           /\ FireAndForget(stdin'[h][Len(stdin'[h])]))]_vars

\* C13: once the operation that observed it has ended, no role points to
\* an engine whose handle is in state ERROR: the handle has been removed
\* and the role is None.
C13_ErrorHandleRemoved ==
  AllIdle =>
    \A r \in Roles :
      (active_engines[r] # None /\ Has(running_engines, active_engines[r])) =>
        state[Get(running_engines, active_engines[r])] # "ERROR"

\* C14: a search that ends without a move ends with an error, not with the
\* None of 'no engine', and leaves the handle READY if its child is alive.
C14_SearchErrorSurfaced ==
  [][\A t \in AllThreads :
       (pc[t] = "go_loop" /\ pc'[t] = "idle" /\ result'[t][1] # "move") =>
         /\ result'[t][1] # "None"
         /\ alive'[hd[t]] => state'[hd[t]] = "READY"]_vars

\* C15: set_engine(role, id, L) with a known id is never refused for its
\* level; on the same-engine path it leaves strength_levels[role] at L
\* clamped to the descriptor's range, and so does every swap that succeeds.
C15_StrengthClamped ==
  [][LET \* max(minLevel, min(L, maxLevel)) for a descriptor with minLevel <= maxLevel
         ClampedLevel(engine_id, level) ==
           LET c == available_engines[engine_id] IN
           IF level < c.minLevel THEN c.minLevel
           ELSE IF level > c.maxLevel THEN c.maxLevel
           ELSE level
     IN
     \A t \in AllThreads :
       /\ \A side \in Roles, engine_id \in EngineIds, level \in LevelInputs :
            (pc[t] = "idle" /\ SetEngine(t, side, engine_id, level,
                                         [given |-> FALSE, opts |-> <<>>], None)) =>
              /\ result'[t][1] # "ValueError"
              /\ active_engines[side] = engine_id =>
                   strength_levels'[side] = ClampedLevel(engine_id, level)
       /\ (pc[t] = "se_apply" /\ pc'[t] # "se_apply"
             /\ result'[t][1] # "RuntimeError") =>
            strength_levels'[op[t].side] = ClampedLevel(op[t].engine_id, op[t].level)]_vars

\* A level above the range and a level below it have been clamped.
C15_Witness ==
  /\ active_engines["black"] = "e2"
  /\ strength_levels["black"] \in {2, 9}
  /\ result["t1"][1] = "True"

\* C16: set_engine for the engine the role already has, on a handle that
\* takes the writes, returns True, spawns and stops nothing, and writes the
\* strength setoption lines followed by one setoption line per custom
\* option of the role.
C16_SameEngineResendsOptions ==
  [][\A t \in AllThreads, side \in Roles, engine_id \in EngineIds,
        c \in CustomInputs :
       (/\ pc[t] = "idle"
        /\ active_engines[side] = engine_id
        /\ Has(running_engines, engine_id)
        /\ Writable(Get(running_engines, engine_id))
        /\ SetEngine(t, side, engine_id, 10, c, None)) =>
         /\ result'[t][1] = "True"
         /\ UNCHANGED <<running_engines, created, process, alive>>
         /\ stdin'[Get(running_engines, engine_id)] =
              SetoptionLines(StrengthOptions(engine_id, Clamp(engine_id, 10))
                             \o custom_options'[side])]_vars

\* Thread t takes the step of set_engine that follows a start or a lookup
SwapStep(t) == pc[t] = "se_apply" /\ pc'[t] # "se_apply"
\* Thread t completes the stop() of the engine a role has left
StopOldStep(t) == pc[t] = "stop_lock" /\ cont[t] = "se_true" /\ pc'[t] # "stop_lock"

\* C17: a swap that succeeds writes to the new engine's handle, in this
\* order, the strength setoption lines, the role's custom setoption lines,
\* 'usinewgame' and the position line of the shared view, and points the
\* role to the new engine; a swap whose writes fail leaves the roles as they
\* were; the old engine is stopped in a later step, with the role already
\* re-pointed, and only when no role references it.
C17_HotSwapOrder ==
  [][\A t \in AllThreads :
       /\ (SwapStep(t) /\ result'[t][1] # "RuntimeError"
             /\ Has(running_engines, op[t].engine_id)) =>
            /\ stdin'[Get(running_engines, op[t].engine_id)] =
                 stdin[Get(running_engines, op[t].engine_id)]
                   \o SetoptionLines(StrengthOptions(op[t].engine_id,
                                        Clamp(op[t].engine_id, op[t].level)))
                   \o SetoptionLines(custom_options[op[t].side])
                   \o << <<"usinewgame">>,
                         format_position(current_position, move_history) >>
            /\ active_engines'[op[t].side] = op[t].engine_id
            /\ UNCHANGED <<process, alive>>
            /\ (\E r \in Roles : active_engines'[r] = old[t]) => pc'[t] = "idle"
       /\ (SwapStep(t) /\ result'[t][1] = "RuntimeError") =>
            UNCHANGED active_engines
       /\ StopOldStep(t) =>
            /\ \A r \in Roles : active_engines[r] # old[t]
            /\ active_engines[op[t].side] = op[t].engine_id]_vars

\* Black has been swapped from e2 to e1 with a custom option: e1 received
\* its five lines and the handle of e2 has been stopped.
C17_Witness ==
  /\ active_engines["black"] = "e1"
  /\ custom_options["black"] # <<>>
  /\ AllIdle
  /\ \E h1, h2 \in Handles :
       /\ config[h1] = "e1" /\ Len(stdin[h1]) = 5 /\ Writable(h1)
       /\ config[h2] = "e2" /\ process[h2] = None /\ state[h2] = "IDLE"
       /\ ~Tracked(h2)

\* C18: _apply_strength sends nothing when strength control is not
\* supported; with 'uciElo' among the methods it sends UCI_LimitStrength =
\* true and then UCI_Elo = T(level), also when 'skillLevel' is present;
\* else with 'skillLevel' it sends the Skill Level option alone; else
\* nothing.
C18_StrengthMapping ==
  ret.called =>
    LET c == arg[1]
        level == arg[2]
        T == <<600, 850, 1075, 1225, 1450, 1700, 1950, 2200, 2550, 3000>>
    IN IF ~c.supported THEN ret.out = <<>>
       ELSE IF "uciElo" \in c.methods
       THEN ret.out = << <<"setoption", "name", "UCI_LimitStrength", "value", "true">>,
                     <<"setoption", "name", "UCI_Elo", "value",
                       ToString(T[level])>> >>
       ELSE IF "skillLevel" \in c.methods
       THEN /\ Len(ret.out) = 1
            /\ SubSeq(ret.out[1], 1, 4) = <<"setoption", "name", "Skill Level", "value">>
       ELSE ret.out = <<>>

\* Level 7 with both methods has been mapped to UCI_Elo 1950.
C18_Witness ==
  /\ ret.called
  /\ arg[1] = [supported |-> TRUE, methods |-> {"skillLevel", "uciElo"}]
  /\ arg[2] = 7
  /\ Len(ret.out) = 2
  /\ ret.out[2] = <<"setoption", "name", "UCI_Elo", "value", "1950">>

\* C19: when the skillLevel method is the one used, the Skill Level option
\* is sent with the value round((level - 1) * 20 / 9), that is
\* (2 * (level - 1) * 20 + 9) \div 18.
C19_SkillLevelRounded ==
  (/\ ret.called
   /\ arg[1].supported
   /\ "skillLevel" \in arg[1].methods
   /\ "uciElo" \notin arg[1].methods) =>
    ret.out = << <<"setoption", "name", "Skill Level", "value",
               ToString((2 * (arg[2] - 1) * 20 + 9) \div 18)>> >>

\* C20: set_engine with a side that is no role, or with a non-null engine id
\* that is not in the catalog, raises ValueError in the call itself, spawns
\* and stops no process, writes no USI line, and leaves active_engines,
\* strength_levels and running_engines as they were.
C20_InvalidArgumentsRejected ==
  [][\A t \in AllThreads, side \in Roles \cup {"green"},
        engine_id \in IdInputs \cup {None}, c \in CustomInputs :
       (/\ pc[t] = "idle"
        /\ \/ side \notin Roles
           \/ engine_id # None /\ engine_id \notin DOMAIN available_engines
        /\ SetEngine(t, side, engine_id, 10, c, None)) =>
         /\ result'[t][1] = "ValueError"
         /\ pc'[t] = "idle"
         /\ stdin' = Fresh
         /\ UNCHANGED <<active_engines, strength_levels, running_engines,
                        created, process, alive, state, lock, pending,
                        child_position>>]_vars

\* Black plays a running engine, and a call with an unknown engine id for
\* black that carried custom options has just been refused.
C20_Witness ==
  /\ result["t1"][1] = "ValueError"
  /\ pc["t1"] = "idle"
  /\ active_engines["black"] = "e1"
  /\ Has(running_engines, "e1")
  /\ Writable(Get(running_engines, "e1"))
  /\ custom_options["black"] # <<>>
  /\ custom_options["white"] = <<>>
  /\ active_engines["white"] = None

\* C21: get_move on a side whose role has no engine, analyze_position
\* without an engine id while black and white have none, and
\* analyze_position naming an engine that is not running all return None in
\* the call itself, spawn no process and write no line to any engine.
C21_NoEngineReturnsNone ==
  [][LET Quiet(t) ==
           /\ result'[t][1] = "None"
           /\ pc'[t] = "idle"
           /\ stdin' = Fresh
           /\ UNCHANGED <<running_engines, active_engines, created, process,
                          alive, state, pending, child_position>>
     IN
     \A t \in AllThreads :
       /\ \A side \in Roles :
            (pc[t] = "idle" /\ active_engines[side] = None
               /\ GetMoveCall(t, side)) => Quiet(t)
       /\ \A position \in Positions, moves \in MoveLists,
             id \in IdInputs \cup {None} :
            (/\ pc[t] = "idle"
             /\ IF id = None
                THEN active_engines["black"] = None /\ active_engines["white"] = None
                ELSE ~Has(running_engines, id)
             /\ AnalyzeCall(t, position, moves, id)) => Quiet(t)]_vars

\* The analysis role has a running engine, black has none, and a search
\* for black has just returned None with nothing written.
C21_Witness ==
  /\ result["t1"][1] = "None"
  /\ pc["t1"] = "idle"
  /\ active_engines["black"] = None
  /\ active_engines["analysis"] = "e1"
  /\ Has(running_engines, "e1")
  /\ Writable(Get(running_engines, "e1"))
  /\ state[Get(running_engines, "e1")] = "READY"
  /\ stdin = Fresh

\* C22: when analyze_position without an engine id starts a search, the
\* handle it searches on is that of the role of the side to move, or, when
\* that role has no engine, that of the other playing side; the position
\* and go lines go to that handle alone, and a handle that only the
\* analysis role references is never the one searched on.
C22_AnalysisEngineSelection ==
  [][\A t \in AllThreads, position \in Positions, moves \in MoveLists :
       (/\ pc[t] = "idle"
        /\ AnalyzeCall(t, position, moves, None)
        /\ pc'[t] = "go_loop") =>
         LET s == _get_side_to_move(position, moves)
             other == IF s = "black" THEN "white" ELSE "black"
             r == IF active_engines[s] # None THEN s ELSE other
             a == active_engines["analysis"]
         IN /\ active_engines[r] # None
            /\ Has(running_engines, active_engines[r])
            /\ hd'[t] = Get(running_engines, active_engines[r])
            /\ \A h \in Handles : h # hd'[t] => stdin'[h] = <<>>
            /\ stdin'[hd'[t]] = <<format_position(position, moves),
                                  format_go(AnalyzeParams)>>
            /\ (a # None /\ a # active_engines[r] /\ Has(running_engines, a)) =>
                 hd'[t] # Get(running_engines, a)]_vars

\* White is to move and has no engine, black plays e1 and the analysis role
\* has e2: the search runs on the handle of e1.
C22_Witness ==
  /\ pc["t1"] = "go_loop"
  /\ op["t1"].name = "analyze_position"
  /\ op["t1"].moves = <<"7g7f">>
  /\ active_engines = [black |-> "e1", white |-> None, analysis |-> "e2"]
  /\ Has(running_engines, "e1") /\ Has(running_engines, "e2")
  /\ Writable(Get(running_engines, "e2"))
  /\ hd["t1"] = Get(running_engines, "e1")

\* C23: _get_side_to_move answers black for a non-empty move list of even
\* length and white for one of odd length, whatever the position; with an
\* empty or absent move list it answers black for 'startpos', black when
\* the second field of the SFEN is 'b', white when it is 'w', and black
\* when the SFEN has no second field.
C23_SideToMove ==
  ret.called =>
    LET position == arg.position
        moves == arg.moves
    IN IF moves # <<>>
       THEN ret.out = IF Len(moves) % 2 = 0 THEN "black" ELSE "white"
       ELSE IF position = <<"startpos">> THEN ret.out = "black"
       ELSE IF Len(position) < 2 THEN ret.out = "black"
       ELSE /\ position[2] = "b" => ret.out = "black"
            /\ position[2] = "w" => ret.out = "white"

\* An SFEN ending ' w - 1' with an absent move list has been answered white.
C23_Witness ==
  /\ ret.called
  /\ arg.position = <<"sfenA", "w", "-", "1">>
  /\ ~arg.given
  /\ ret.out = "white"

\* C24: a starting handle becomes READY only on reading a line equal to
\* 'readyok', and by then it has been sent 'usi', one setoption per default
\* option in declared order, and 'isready', in that order.
C24_StartupOrder ==
  [][\A t \in AllThreads :
       (pc[t] = "start_ready" /\ state'[hd[t]] = "READY") =>
         /\ state[hd[t]] = "INITIALIZING"
         /\ stdin[hd[t]] =
              <<<<"usi">>>>
                \o SetoptionLines(available_engines[config[hd[t]]].defaultOptions)
                \o <<<<"isready">>>>
         /\ stdout[hd[t]] # <<>>
         /\ Head(stdout[hd[t]]).line = <<"readyok">>]_vars

\* C25: stop() always completes: a call that has entered stop() can go on
\* to send 'quit', release the process and return, and a handle whose
\* stop() has been entered with a process does not keep it for ever.
C25_StopCompletes ==
  \A t \in AllThreads : pc[t] = "stop_lock" => ENABLED Stop(t)

\* C26: on every step that leaves a handle its process, each name for
\* which setoption lines were written to the handle in the step has in
\* current_options the value of the last of them, every other name keeps
\* its entry, and no name is removed; a step that writes no setoption line
\* (a failed write among them) leaves current_options as it was.
C26_CurrentOptionsTrackSent ==
  [][\A h \in Handles :
       LET written ==
             IF stdin'[h] = stdin[h] THEN <<>>
             ELSE IF \A t \in AllThreads : pc[t] = "idle" THEN stdin'[h]
             ELSE SubSeq(stdin'[h], Len(stdin[h]) + 1, Len(stdin'[h]))
           IsSet(i, n) == written[i][1] = "setoption" /\ written[i][3] = n
           Sets(n) == {i \in 1..Len(written) : IsSet(i, n)}
           Last(n) == CHOOSE i \in Sets(n) : \A j \in Sets(n) : j <= i
           names == Keys(current_options[h]) \cup Keys(current_options'[h])
                      \cup {written[i][3] : i \in {j \in 1..Len(written) :
                                                     written[j][1] = "setoption"}}
       IN process'[h] # None =>
            \A n \in names :
              IF Sets(n) # {}
              THEN /\ Has(current_options'[h], n)
                   /\ Get(current_options'[h], n) = written[Last(n)][5]
              ELSE /\ Has(current_options'[h], n) <=> Has(current_options[h], n)
                   /\ Has(current_options[h], n) =>
                        Get(current_options'[h], n) = Get(current_options[h], n)]_vars

\* The engine of black was started with Hash 128 from its descriptor and
\* then sent Hash 64 as a custom option: current_options holds 64.
C26_Witness ==
  /\ active_engines["black"] = "e1"
  /\ Has(running_engines, "e1")
  /\ Has(current_options[Get(running_engines, "e1")], "Hash")
  /\ Get(current_options[Get(running_engines, "e1")], "Hash") = "64"
  /\ Has(current_options[Get(running_engines, "e1")], "UCI_Elo")

\* C27: load_preferences on a missing or unparseable file returns
\* preferences whose engineId is null for black, white and analysis, whose
\* strengthLevel is 10 for the three roles, and whose analysis is not
\* enabled.
C27_DefaultPreferences ==
  (ret.called /\ (~arg.exists \/ ~arg.parses)) =>
    /\ \A r \in Roles : ret.out[r].engineId = None
    /\ \A r \in Roles : ret.out[r].strengthLevel = 10
    /\ ret.out["analysis"].enabled = FALSE

\* C28: option inspection never stops a handle that some role references:
\* when the stop() that ends an inspection runs, no role has the inspected
\* engine.
C28_InspectionKeepsReferencedHandles ==
  [][\A t \in AllThreads :
       (pc[t] = "stop_lock" /\ cont[t] = "inspect" /\ Stop(t)) =>
         \A r \in Roles : active_engines[r] # op[t].engine_id]_vars

\* C29: update_position(P, M) sets current_position to P and move_history
\* to M, an absent M giving the empty list, and every other step (of
\* set_engine, get_move, analyze_position, shutdown, or of a child) leaves
\* both as they were, whatever its outcome.
C29_OnlyUpdatePositionChangesView ==
  [][LET Updates(t, position, a) ==
           pc[t] = "idle" /\ UpdatePositionCall(t, position, OrEmpty(a))
     IN
     /\ \A t \in AllThreads, position \in Positions, a \in MoveArgs :
          Updates(t, position, a) =>
            /\ current_position' = position
            /\ move_history' = IF a.given THEN a.moves ELSE <<>>
     /\ (\A t \in AllThreads, position \in Positions, a \in MoveArgs :
           ~Updates(t, position, a)) =>
          UNCHANGED <<current_position, move_history>>]_vars

\* The view was set to an SFEN with one move, and a search that ran later
\* has returned its move: the view is still that SFEN and that move.
C29_Witness ==
  /\ current_position = <<"sfenA", "w">>
  /\ move_history = <<"7g7f">>
  /\ result["t1"][1] = "move"
  /\ pc["t1"] = "idle"

\* C30: discovery emits the descriptor of a folder exactly when its
\* config.json exists and parses, every required field is present,
\* protocol is 'USI', the six feature flags are present and boolean,
\* minLevel and maxLevel are integers in 1..10 with minLevel <= maxLevel,
\* the default options are strings and the required files exist; the
\* folders that fail are skipped and the others are emitted, in order.
C30_DiscoveryClosure ==
  ret.called =>
    LET Valid(f) ==
          /\ f.has_config /\ f.parses
          /\ required_fields \subseteq f.keys /\ f.nulls = {}
          /\ f.keys \subseteq required_fields \cup OptionalFields
          /\ {"estimated_elo", "level", "notes", "minLevel", "maxLevel"} \subseteq f.strength
          /\ {"supported", "methods", "notes"} \subseteq f.strengthControl
          /\ f.protocol = "USI"
          /\ \A x \in required_features :
               x \in DOMAIN f.features /\ f.features[x] = "bool"
          /\ f.minLevel.type = "int" /\ f.maxLevel.type = "int"
          /\ f.minLevel.v \in 1..10 /\ f.maxLevel.v \in 1..10
          /\ f.minLevel.v <= f.maxLevel.v
          /\ \A i \in 1..Len(f.defaultOptions) : f.defaultOptions[i] = "str"
          /\ f.requiredFiles \subseteq f.files
    IN ret.out = SelectSeq(arg, Valid)

\* C31: parsing the line of a USIOption gives back that USIOption: same
\* name, type, default, min, max and choice list, for spin, check, combo,
\* string and button options.
C31_OptionRoundTrip ==
  ret.called => ret.out = [ok |-> TRUE, option |-> arg]

\* C32: when shutdown ends, running_engines is empty and no child is left
\* running without a 'quit', also when stopping one of the engines failed.
ShutdownEnds(t) ==
  \/ ShutdownCall(t) /\ pc'[t] = "idle"
  \/ op[t].name = "shutdown" /\ Stop(t) /\ pc'[t] = "idle"
C32_ShutdownStopsAll ==
  [][ShutdownEnds("t1") =>
       /\ running_engines' = <<>>
       /\ \A h \in Handles :
            alive'[h] => \E i \in 1..Len(stdin'[h]) : stdin'[h][i] = <<"quit">>
    ]_vars

\* C33: a handle is THINKING exactly while a go call is waiting for its
\* bestmove: a search is begun on a READY handle only, and no go call ends
\* with the handle still THINKING.
Searching(h) == \E t \in AllThreads : pc[t] = "go_loop" /\ hd[t] = h
GoBegins(t) ==
  /\ pc[t] = "idle" /\ pc'[t] = "go_loop"
C33_ThinkingWhileSearching ==
  /\ [][\A t \in AllThreads : GoBegins(t) => state[hd'[t]] = "READY"]_vars
  /\ [](\A h \in Handles : state[h] = "THINKING" <=> Searching(h))

\* C34: in go, the info record holds for each field the value of the last
\* info line read that carries the field, the callback has been given,
\* once each and in arrival order, the info lines whose parse yields a
\* field, and the bestmove and ponder returned are those of the bestmove
\* line.
C34_InfoAccumulation ==
  ret.called =>
    LET o == ret.out
        \* the lines read so far that were parsed
        n == IF o.end = "reading" THEN o.at ELSE o.at - 1
        carries(i, k) == arg[i][1] = "info" /\ Has(parse_info(arg[i]).info, k)
        fields == {"depth", "seldepth", "score_cp", "mate", "nodes", "nps",
                   "time", "hashfull", "pv"}
        last(k) == CHOOSE i \in 1..n :
                     carries(i, k) /\ \A j \in (i + 1)..n : ~carries(j, k)
        told == SelectSeq([i \in 1..n |-> arg[i]],
                          LAMBDA l : l[1] = "info" /\ parse_info(l).info # <<>>)
    IN /\ \A k \in fields :
            /\ Has(o.best_info, k) <=> \E i \in 1..n : carries(i, k)
            /\ Has(o.best_info, k) =>
                 Get(o.best_info, k) = Get(parse_info(arg[last(k)]).info, k)
       /\ o.calls = told
       /\ o.end = "returned" =>
            /\ arg[o.at][1] = "bestmove"
            /\ o.bestmove = arg[o.at][2]
            /\ o.ponder = IF Len(arg[o.at]) = 4 THEN arg[o.at][4] ELSE None
C34_Witness ==
  /\ ret.called /\ ret.out.end = "returned" /\ ret.out.at = 3
  /\ arg[1] = <<"info", "depth", "5">>
  /\ arg[2] = <<"info", "depth", "12", "score", "cp", "45">>
  /\ Get(ret.out.best_info, "depth") = <<"12">>
  /\ ret.out.ponder = "3c3d"

\* C35: when a 'go' or an 'isready' is written to an engine, nothing the
\* engine wrote or still owes for an earlier command is unread: a search
\* that ended, with a move or with an error, leaves no info or bestmove
\* line for the next one.
WritesRequest(t) ==
  \/ GoBegins(t)
  \/ pc[t] = "start_options" /\ pc'[t] = "start_ready"
C35_NoStaleOutput ==
  [][\A t \in AllThreads :
       WritesRequest(t) => stdout[hd'[t]] = <<>> /\ pending[hd'[t]] = <<>>]_vars

\* C36: when get_move(side) starts a search on a handle whose engine
\* supports strength control, the strength options last applied to the handle
\* are those of strength_levels[side], also when another role on the same
\* handle was given a different level in between.
C36_PerRoleStrength ==
  [][\A side \in {"black", "white"} :
       (GetMoveCall("t1", side) /\ GoBegins("t1")) =>
         LET opts == StrengthOptions(active_engines[side], strength_levels[side])
             applied == current_options[hd'["t1"]]
         IN \A i \in 1..Len(opts) :
              Has(applied, opts[i][1]) /\ Get(applied, opts[i][1]) = opts[i][2]
    ]_vars

\* C37: a set_engine call that fails leaves custom_options[role] and
\* analysis_enabled as they were before the call.  Stated for the call that
\* is refused for its unknown engine id, whose failure is decided within
\* the call's first step.
C37_FailedCallKeepsOptions ==
  [][\A t \in AllThreads, side \in Roles, c \in CustomInputs :
       (/\ pc[t] = "idle"
        /\ SetEngine(t, side, "zz", 10, c, None)
        /\ result'[t][1] = "ValueError") =>
         /\ custom_options'[side] = custom_options[side]
         /\ analysis_enabled' = analysis_enabled]_vars

\* C38: set_engine(role, ...) changes the entries of that role only: for
\* every other role the engine id, the strength level and the custom options
\* stay, and its handle is neither stopped nor replaced; clearing a role
\* keeps strength_levels[role]; analysis_enabled changes only in a call for
\* 'analysis' that supplies enabled.
OthersKept(side) ==
  \A r \in Roles \ {side} :
    /\ active_engines'[r] = active_engines[r]
    /\ strength_levels'[r] = strength_levels[r]
    /\ custom_options'[r] = custom_options[r]
    /\ (active_engines[r] # None /\ Has(running_engines, active_engines[r])) =>
         LET h == Get(running_engines, active_engines[r]) IN
         /\ Has(running_engines', active_engines[r])
         /\ Get(running_engines', active_engines[r]) = h
         /\ process'[h] = process[h]
SetEngineBegins(sides, ids) ==
  /\ pc["t1"] = "idle"
  /\ \E side \in sides, engine_id \in ids, c \in CustomInputs,
        enabled \in EnabledInputs :
       SetEngine("t1", side, engine_id, 5, c, enabled)
FlagNotSupplied ==
  /\ pc["t1"] = "idle"
  /\ \E side \in FrameSides, engine_id \in IdInputs \cup {None},
        c \in CustomInputs, enabled \in EnabledInputs :
       /\ side # "analysis" \/ enabled = None
       /\ SetEngine("t1", side, engine_id, 5, c, enabled)
C38_SetEngineFrame ==
  [][/\ \A side \in FrameSides :
          OthersKept(side) \/ ~SetEngineBegins({side}, IdInputs \cup {None})
     /\ strength_levels' = strength_levels
          \/ ~SetEngineBegins(FrameSides, {None})
     /\ analysis_enabled' = analysis_enabled \/ ~FlagNotSupplied
     /\ \/ /\ OthersKept(op["t1"].side)
           /\ op["t1"].engine_id = None => strength_levels' = strength_levels
           /\ analysis_enabled' = analysis_enabled
        \/ ~(op["t1"].name = "set_engine" /\ SetEngineSteps("t1"))
    ]_vars
\* With the analysis role on a running e1, black has just been moved from e1
\* to e2 with custom options: e1 is still running for analysis.
C38_Witness ==
  /\ pc["t1"] = "idle" /\ result["t1"][1] = "True"
  /\ active_engines["analysis"] = "e1" /\ active_engines["black"] = "e2"
  /\ Has(running_engines, "e1") /\ alive[Get(running_engines, "e1")]
  /\ Has(running_engines, "e2")
  /\ custom_options["black"] # <<>> /\ custom_options["analysis"] = <<>>
  /\ analysis_enabled

\* C39: a search that is in flight on a handle when a concurrent set_engine
\* or shutdown stops the handle eventually ends, by returning or raising.
StoppedUnderSearch(t) == pc[t] = "go_loop" /\ process[hd[t]] = None
C39_StoppedSearchEnds ==
  StoppedUnderSearch("t1") ~> pc["t1"] = "idle"

\* C40: whatever the info lines of a search contain, go skips what it cannot
\* parse: when the engine's lines are info lines followed by a bestmove line,
\* the call does not end before that line and returns its move.
InfoThenBestmove(lines) ==
  /\ \A i \in 1..(Len(lines) - 1) : lines[i][1] = "info"
  /\ lines[Len(lines)][1] = "bestmove"
C40_InfoNeverAborts ==
  (ret.called /\ InfoThenBestmove(arg)) =>
    /\ ret.out.end # "raised"
    /\ ret.out.at = Len(arg) =>
         ret.out.end = "returned" /\ ret.out.bestmove = arg[Len(arg)][2]

====
